---------------------------- MODULE Spec2Model ----------------------------
(***************************************************************************)
(* A model of apipod-cli's core: the tool executor (internal/tools),      *)
(* the SSE stream parser (internal/client) and the conversation loop      *)
(* (internal/conversation).                                                *)
(*                                                                         *)
(* Text is a sequence of one-character strings, so that searching and      *)
(* replacing are computed as the Go library computes them.                 *)
(***************************************************************************)
EXTENDS Integers, Sequences, FiniteSets, TLC

(***************************************************************************)
(* Bounds of the model.                                                    *)
(***************************************************************************)
MaxFileLen == 3
MaxEdits == 2

(***************************************************************************)
(* Text helpers (package strings).                                         *)
(***************************************************************************)
Chars == {"a", "b"}

RECURSIVE TextsOfLen(_)
TextsOfLen(n) ==
    IF n = 0 THEN {<<>>}
    ELSE {<<c>> \o t : c \in Chars, t \in TextsOfLen(n - 1)}

TextsUpTo(n) == UNION {TextsOfLen(k) : k \in 0..n}

\* s[i..] starts with t
HasPrefixAt(s, t, i) ==
    /\ i + Len(t) - 1 <= Len(s)
    /\ \A j \in 1..Len(t) : s[i + j - 1] = t[j]

\* strings.Index, 1-based; 0 when t does not occur in s
Index(s, t) ==
    IF \E i \in 1..(Len(s) + 1) : HasPrefixAt(s, t, i)
    THEN CHOOSE i \in 1..(Len(s) + 1) :
            /\ HasPrefixAt(s, t, i)
            /\ \A j \in 1..(i - 1) : ~HasPrefixAt(s, t, j)
    ELSE 0

\* strings.Contains
Contains(s, t) == Index(s, t) # 0

\* strings.Replace(s, old, new, 1)
ReplaceFirst(s, old, new) ==
    LET i == Index(s, old) IN
    IF i = 0 THEN s
    ELSE SubSeq(s, 1, i - 1) \o new \o SubSeq(s, i + Len(old), Len(s))

\* strings.ReplaceAll(s, old, new) for a non-empty old: the non-overlapping
\* occurrences, left to right
RECURSIVE ReplaceAll(_, _, _)
ReplaceAll(s, old, new) ==
    IF old = <<>> \/ Len(s) < Len(old) THEN s
    ELSE IF HasPrefixAt(s, old, 1)
         THEN new \o ReplaceAll(SubSeq(s, Len(old) + 1, Len(s)), old, new)
         ELSE <<s[1]>> \o ReplaceAll(Tail(s), old, new)

\* strings.Split(s, sep) for a one-character sep
RECURSIVE Split(_, _)
Split(s, sep) ==
    IF \A i \in 1..Len(s) : s[i] # sep THEN <<s>>
    ELSE LET i == CHOOSE k \in 1..Len(s) :
                     s[k] = sep /\ \A j \in 1..(k - 1) : s[j] # sep
         IN <<SubSeq(s, 1, i - 1)>> \o Split(SubSeq(s, i + 1, Len(s)), sep)

(***************************************************************************)
(* Dynamically typed input values (map[string]interface{}) and the type    *)
(* assertions the tools apply to them: a missing key or a value of         *)
(* another type gives the zero value.                                      *)
(***************************************************************************)
Absent == [none |-> TRUE]
Str(s) == [str |-> s]
Num(n) == [num |-> n]
Bool(b) == [bool |-> b]
Arr(a) == [arr |-> a]
Obj(o) == [obj |-> o]

Get(m, k) == IF k \in DOMAIN m THEN m[k] ELSE Absent
AsString(v) == IF "str" \in DOMAIN v THEN v.str ELSE <<>>
AsBool(v) == IF "bool" \in DOMAIN v THEN v.bool ELSE FALSE
IsNum(v) == "num" \in DOMAIN v
IsArr(v) == "arr" \in DOMAIN v
IsObj(v) == "obj" \in DOMAIN v


(***************************************************************************)
(* The executor's world: one file of the working directory (PathF), which  *)
(* may not exist, a write-protection flag of the directory, the            *)
(* background shells ever created (the *bgShell objects) and the registry  *)
(* Executor.bgShells mapping a handle id to one of them.                    *)
(***************************************************************************)
PathF == <<"f">>
NoFile == [exists |-> FALSE, content |-> <<>>]
FileOf(t) == [exists |-> TRUE, content |-> t]

\* ToolResult, with the ghost field failed: TRUE on the return paths where
\* the tool did not do its work (a missing parameter, an unknown tool or
\* handle, a file error, a command that failed)
ToolResult(id, msg, data, isError, failed) ==
    [tool_use_id |-> id, content |-> [msg |-> msg, data |-> data],
     is_error |-> isError, failed |-> failed]

Ret(res, w) == [result |-> res, world |-> w]

\* os.ReadFile / os.WriteFile on the resolved path
ReadFile(w, p) == IF p = PathF THEN w.file ELSE NoFile
CanWrite(w, p) == p = PathF /\ ~w.readOnly

\* a plausible bug: the edit is written although old_string does not occur
executeEdit_NoContainsCheck(call, w) ==
    LET filePath == AsString(Get(call.input, "file_path"))
        oldStr == AsString(Get(call.input, "old_string"))
        newStr == AsString(Get(call.input, "new_string"))
        f == ReadFile(w, filePath)
    IN  IF filePath = <<>> \/ oldStr = <<>>
        THEN Ret(ToolResult(call.id, "Missing required parameters", <<>>, TRUE, TRUE), w)
        ELSE IF ~f.exists
        THEN Ret(ToolResult(call.id, "Error", <<>>, TRUE, TRUE), w)
        ELSE IF ~CanWrite(w, filePath)
        THEN Ret(ToolResult(call.id, "Error", <<>>, TRUE, TRUE), w)
        ELSE Ret(ToolResult(call.id, "Edited", filePath, FALSE, FALSE),
                 [w EXCEPT !.file = FileOf(ReplaceFirst(f.content, oldStr, newStr))])

executeEdit(call, w) ==
    LET filePath == AsString(Get(call.input, "file_path"))
        oldStr == AsString(Get(call.input, "old_string"))
        newStr == AsString(Get(call.input, "new_string"))
        f == ReadFile(w, filePath)
    IN  IF filePath = <<>> \/ oldStr = <<>>
        THEN Ret(ToolResult(call.id, "Missing required parameters", <<>>, TRUE, TRUE), w)
        ELSE IF ~f.exists
        THEN Ret(ToolResult(call.id, "Error", <<>>, TRUE, TRUE), w)
        ELSE IF ~Contains(f.content, oldStr)
        THEN Ret(ToolResult(call.id, "String not found in file", <<>>, TRUE, TRUE), w)
        ELSE IF ~CanWrite(w, filePath)
        THEN Ret(ToolResult(call.id, "Error", <<>>, TRUE, TRUE), w)
        ELSE Ret(ToolResult(call.id, "Edited", filePath, FALSE, FALSE),
                 [w EXCEPT !.file = FileOf(ReplaceFirst(f.content, oldStr, newStr))])

\* The loop of executeMultiEdit over editsRaw[i..]: the in-memory text after
\* the edits, or the error of the first edit that is invalid.
RECURSIVE ApplyEdits(_, _, _)
ApplyEdits(text, editsRaw, i) ==
    IF i > Len(editsRaw) THEN [ok |-> TRUE, text |-> text, msg |-> "", at |-> 0]
    ELSE LET raw == editsRaw[i] IN
         IF ~IsObj(raw)
         THEN [ok |-> FALSE, text |-> text, msg |-> "Invalid edit at index", at |-> i - 1]
         ELSE LET edit == raw.obj
                  oldStr == AsString(Get(edit, "old_string"))
                  newStr == AsString(Get(edit, "new_string"))
              IN  IF oldStr = <<>>
                  THEN [ok |-> FALSE, text |-> text, msg |-> "Empty old_string at edit", at |-> i - 1]
                  ELSE IF ~Contains(text, oldStr)
                  THEN [ok |-> FALSE, text |-> text, msg |-> "String not found at edit", at |-> i - 1]
                  ELSE IF AsBool(Get(edit, "replace_all"))
                  THEN ApplyEdits(ReplaceAll(text, oldStr, newStr), editsRaw, i + 1)
                  ELSE ApplyEdits(ReplaceFirst(text, oldStr, newStr), editsRaw, i + 1)

\* a plausible bug: every edit is written to the file as soon as it applies
RECURSIVE ApplyEditsWriteThrough(_, _, _, _, _)
ApplyEditsWriteThrough(call, w, text, editsRaw, i) ==
    IF i > Len(editsRaw)
    THEN Ret(ToolResult(call.id, "Applied edits", <<Len(editsRaw)>>, FALSE, FALSE), w)
    ELSE LET r == ApplyEdits(text, <<editsRaw[i]>>, 1) IN
         IF ~r.ok
         THEN Ret(ToolResult(call.id, r.msg, <<i - 1>>, TRUE, TRUE), w)
         ELSE ApplyEditsWriteThrough(call, [w EXCEPT !.file = FileOf(r.text)],
                                     r.text, editsRaw, i + 1)

executeMultiEdit_WriteThrough(call, w) ==
    LET filePath == AsString(Get(call.input, "file_path"))
        edits == Get(call.input, "edits")
        f == ReadFile(w, filePath)
    IN  IF filePath = <<>>
        THEN Ret(ToolResult(call.id, "Missing required parameter: file_path", <<>>, TRUE, TRUE), w)
        ELSE IF ~IsArr(edits) \/ (IsArr(edits) /\ Len(edits.arr) = 0)
        THEN Ret(ToolResult(call.id, "Missing required parameter: edits", <<>>, TRUE, TRUE), w)
        ELSE IF ~f.exists \/ ~CanWrite(w, filePath)
        THEN Ret(ToolResult(call.id, "Error", <<>>, TRUE, TRUE), w)
        ELSE ApplyEditsWriteThrough(call, w, f.content, edits.arr, 1)

executeMultiEdit(call, w) ==
    LET filePath == AsString(Get(call.input, "file_path"))
        edits == Get(call.input, "edits")
        f == ReadFile(w, filePath)
    IN  IF filePath = <<>>
        THEN Ret(ToolResult(call.id, "Missing required parameter: file_path", <<>>, TRUE, TRUE), w)
        ELSE IF ~IsArr(edits) \/ (IsArr(edits) /\ Len(edits.arr) = 0)
        THEN Ret(ToolResult(call.id, "Missing required parameter: edits", <<>>, TRUE, TRUE), w)
        ELSE IF ~f.exists
        THEN Ret(ToolResult(call.id, "Error", <<>>, TRUE, TRUE), w)
        ELSE LET r == ApplyEdits(f.content, edits.arr, 1) IN
             IF ~r.ok
             THEN Ret(ToolResult(call.id, r.msg, <<r.at>>, TRUE, TRUE), w)
             ELSE IF ~CanWrite(w, filePath)
             THEN Ret(ToolResult(call.id, "Error", <<>>, TRUE, TRUE), w)
             ELSE Ret(ToolResult(call.id, "Applied edits", <<Len(edits.arr)>>, FALSE, FALSE),
                      [w EXCEPT !.file = FileOf(r.text)])

executeWrite(call, w) ==
    LET filePath == AsString(Get(call.input, "file_path"))
        content == AsString(Get(call.input, "content"))
    IN  IF filePath = <<>>
        THEN Ret(ToolResult(call.id, "Missing required parameter: file_path", <<>>, TRUE, TRUE), w)
        ELSE IF ~CanWrite(w, filePath)
        THEN Ret(ToolResult(call.id, "Error", <<>>, TRUE, TRUE), w)
        ELSE Ret(ToolResult(call.id, "Written", filePath, FALSE, FALSE),
                 [w EXCEPT !.file = FileOf(content)])

\* the lines lines[from..to] (1-based, inclusive), each with its number:
\* the "%5d|%s\n" rows of executeRead
RECURSIVE NumberedLines(_, _, _)
NumberedLines(lines, from, to) ==
    IF from > to THEN <<>>
    ELSE <<[n |-> from, text |-> lines[from]]>> \o NumberedLines(lines, from + 1, to)

\* a plausible bug: the offset taken as the 0-based index of the first line
executeRead_ZeroBased(call, w) ==
    LET filePath == AsString(Get(call.input, "file_path"))
        f == ReadFile(w, filePath)
        lines == Split(f.content, "\n")
        vo == Get(call.input, "offset")
        vl == Get(call.input, "limit")
        offset == IF IsNum(vo) THEN (IF vo.num < 0 THEN 0 ELSE vo.num) ELSE 0
        limit0 == IF IsNum(vl) /\ vl.num > 0 THEN offset + vl.num ELSE Len(lines)
        limit == IF limit0 > Len(lines) THEN Len(lines) ELSE limit0
    IN  IF filePath = <<>>
        THEN Ret(ToolResult(call.id, "Missing required parameter: file_path", <<>>, TRUE, TRUE), w)
        ELSE IF ~f.exists
        THEN Ret(ToolResult(call.id, "Error", <<>>, TRUE, TRUE), w)
        ELSE IF offset >= Len(lines)
        THEN Ret(ToolResult(call.id, "Offset beyond file length", <<>>, TRUE, TRUE), w)
        ELSE Ret(ToolResult(call.id, "Lines", NumberedLines(lines, offset + 1, limit), FALSE, FALSE), w)

executeRead(call, w) ==
    LET filePath == AsString(Get(call.input, "file_path"))
        f == ReadFile(w, filePath)
        lines == Split(f.content, "\n")
        vo == Get(call.input, "offset")
        vl == Get(call.input, "limit")
        offset == IF IsNum(vo) THEN (IF vo.num - 1 < 0 THEN 0 ELSE vo.num - 1) ELSE 0
        limit0 == IF IsNum(vl) /\ vl.num > 0 THEN offset + vl.num ELSE Len(lines)
        limit == IF limit0 > Len(lines) THEN Len(lines) ELSE limit0
    IN  IF filePath = <<>>
        THEN Ret(ToolResult(call.id, "Missing required parameter: file_path", <<>>, TRUE, TRUE), w)
        ELSE IF ~f.exists
        THEN Ret(ToolResult(call.id, "Error", <<>>, TRUE, TRUE), w)
        ELSE IF offset >= Len(lines)
        THEN Ret(ToolResult(call.id, "Offset beyond file length", <<>>, TRUE, TRUE), w)
        ELSE Ret(ToolResult(call.id, "Lines", NumberedLines(lines, offset + 1, limit), FALSE, FALSE), w)

(***************************************************************************)
(* Shell commands.  A command is a little program: a sequence of steps,    *)
(* each printing one chunk of output or writing the file, and an exit      *)
(* status.  Any other command text is one the shell does not know.         *)
(***************************************************************************)
CmdEcho == <<"echo hi">>
CmdTwo == <<"echo x; echo y">>
CmdWrite == <<"printf b > f">>
CmdFalse == <<"false">>

Out(chunk) == [kind |-> "out", text |-> <<chunk>>]
WriteStep(t) == [kind |-> "write", text |-> t]

Program(cmd) ==
    IF cmd = CmdEcho THEN <<Out("hi")>>
    ELSE IF cmd = CmdTwo THEN <<Out("x"), Out("y")>>
    ELSE IF cmd = CmdWrite THEN <<WriteStep(<<"b">>)>>
    ELSE IF cmd = CmdFalse THEN <<>>
    ELSE <<Out("bash: command not found")>>

ExitError(cmd) == cmd \notin {CmdEcho, CmdTwo, CmdWrite}

\* the file after one step of a process
StepFile(step, w) ==
    IF step.kind = "write" /\ CanWrite(w, PathF) THEN FileOf(step.text) ELSE w.file

\* cmd.CombinedOutput(): the process run to its end from step i on
RECURSIVE RunToEnd(_, _, _, _)
RunToEnd(prog, i, out, w) ==
    IF i > Len(prog) THEN [output |-> out, world |-> w]
    ELSE RunToEnd(prog, i + 1,
                  IF prog[i].kind = "out" THEN out \o prog[i].text ELSE out,
                  [w EXCEPT !.file = StepFile(prog[i], w)])

\* A *bgShell: the command of its process, how many steps the process has
\* done, the bytes in the stdout pipe not yet read, shell.output, whether
\* the process was killed, the holder of shell.mu, and its reader task: where
\* it is (rpc), the bytes it has read and not yet appended (buf), and how
\* many chunks it has appended to shell.output so far.
NewShell(cmd) ==
    [cmd |-> cmd, pos |-> 0, pipe |-> <<>>, output |-> <<>>, killed |-> FALSE,
     mu |-> "", rpc |-> "off", buf |-> <<>>, appended |-> 0]

executeBashBackground(call, command, w) ==
    LET idx == Len(w.shells) + 1 IN
    Ret(ToolResult(call.id, "Background process started", <<call.id>>, FALSE, FALSE),
        [w EXCEPT !.shells = Append(w.shells, NewShell(command)),
                  !.bgShells = (call.id :> idx) @@ w.bgShells])

\* a plausible bug: the foreground command is started and not waited for
executeBash_NoWait(call, w) ==
    LET command == AsString(Get(call.input, "command")) IN
    IF command = <<>>
    THEN Ret(ToolResult(call.id, "Missing required parameter: command", <<>>, TRUE, TRUE), w)
    ELSE executeBashBackground(call, command, w)

executeBash(call, w) ==
    LET command == AsString(Get(call.input, "command")) IN
    IF command = <<>>
    THEN Ret(ToolResult(call.id, "Missing required parameter: command", <<>>, TRUE, TRUE), w)
    ELSE IF AsBool(Get(call.input, "run_in_background"))
    THEN executeBashBackground(call, command, w)
    ELSE LET r == RunToEnd(Program(command), 1, <<>>, w) IN
         IF ExitError(command)
         THEN Ret(ToolResult(call.id, "Output",
                             IF r.output = <<>> THEN <<"exit status 1">> ELSE r.output,
                             TRUE, TRUE), r.world)
         ELSE Ret(ToolResult(call.id, "Output", r.output, FALSE, FALSE), r.world)

\* executeBashOutput, its locked sections taken as one step each
executeBashOutput(call, w) ==
    LET bashID == AsString(Get(call.input, "bash_id"))
        id == IF bashID = <<>> THEN "" ELSE bashID[1]
    IN  IF bashID = <<>>
        THEN Ret(ToolResult(call.id, "Missing required parameter: bash_id", <<>>, TRUE, TRUE), w)
        ELSE IF id \notin DOMAIN w.bgShells
        THEN Ret(ToolResult(call.id, "No background shell", <<id>>, TRUE, TRUE), w)
        ELSE LET i == w.bgShells[id]
                 output == w.shells[i].output
             IN  Ret(ToolResult(call.id, "Output",
                                IF output = <<>> THEN <<"(no new output)">> ELSE output,
                                FALSE, FALSE),
                     [w EXCEPT !.shells[i].output = <<>>])

\* a KillBash that kills the process and leaves the handle in the registry
executeKillBash_KeepsHandle(call, w) ==
    LET shellID == AsString(Get(call.input, "shell_id"))
        id == IF shellID = <<>> THEN "" ELSE shellID[1]
    IN  IF shellID = <<>>
        THEN Ret(ToolResult(call.id, "Missing required parameter: shell_id", <<>>, TRUE, TRUE), w)
        ELSE IF id \notin DOMAIN w.bgShells
        THEN Ret(ToolResult(call.id, "No background shell", <<id>>, TRUE, TRUE), w)
        ELSE Ret(ToolResult(call.id, "Shell terminated", <<id>>, FALSE, FALSE),
                 [w EXCEPT !.shells[w.bgShells[id]].killed = TRUE])

executeKillBash(call, w) ==
    LET shellID == AsString(Get(call.input, "shell_id"))
        id == IF shellID = <<>> THEN "" ELSE shellID[1]
    IN  IF shellID = <<>>
        THEN Ret(ToolResult(call.id, "Missing required parameter: shell_id", <<>>, TRUE, TRUE), w)
        ELSE IF id \notin DOMAIN w.bgShells
        THEN Ret(ToolResult(call.id, "No background shell", <<id>>, TRUE, TRUE), w)
        ELSE LET i == w.bgShells[id] IN
             Ret(ToolResult(call.id, "Shell terminated", <<id>>, FALSE, FALSE),
                 [w EXCEPT !.bgShells = [h \in (DOMAIN w.bgShells) \ {id} |-> w.bgShells[h]],
                           !.shells[i].killed = TRUE])

(***************************************************************************)
(* Glob and Grep.  filepath.Glob fails only on a malformed pattern; grep   *)
(* exits 0 with the matching lines, 1 with no output when nothing          *)
(* matches, and 2 with a message when the pattern is malformed or the      *)
(* path does not exist.                                                    *)
(***************************************************************************)
BadPattern == <<"[">>
PathNone == <<"x">>

executeGlob(call, w) ==
    LET pattern == AsString(Get(call.input, "pattern")) IN
    IF pattern = <<>>
    THEN Ret(ToolResult(call.id, "Missing required parameter: pattern", <<>>, TRUE, TRUE), w)
    ELSE IF pattern = BadPattern
    THEN Ret(ToolResult(call.id, "Error", <<>>, TRUE, TRUE), w)
    ELSE IF ~(w.file.exists /\ pattern \in {PathF, <<"*">>})
    THEN Ret(ToolResult(call.id, "No files found", <<>>, FALSE, FALSE), w)
    ELSE Ret(ToolResult(call.id, "Paths", <<PathF>>, FALSE, FALSE), w)

\* exec.Command("grep", "-rn", pattern, path).CombinedOutput()
GrepRun(pattern, path, w) ==
    IF pattern = BadPattern
    THEN [exit |-> 2, output |-> <<"grep: Unmatched [">>]
    ELSE IF path # <<>> /\ path # PathF
    THEN [exit |-> 2, output |-> <<"grep: No such file or directory">>]
    ELSE IF w.file.exists /\ Contains(w.file.content, pattern)
    THEN [exit |-> 0, output |-> <<w.file.content>>]
    ELSE [exit |-> 1, output |-> <<>>]

executeGrep(call, w) ==
    LET pattern == AsString(Get(call.input, "pattern"))
        path == AsString(Get(call.input, "path"))
        r == GrepRun(pattern, path, w)
    IN  IF pattern = <<>>
        THEN Ret(ToolResult(call.id, "Missing required parameter: pattern", <<>>, TRUE, TRUE), w)
        ELSE IF r.exit # 0 /\ r.output = <<>>
        THEN Ret(ToolResult(call.id, "No matches found", <<>>, FALSE, r.exit # 1), w)
        ELSE Ret(ToolResult(call.id, "Output", r.output, FALSE, r.exit # 0), w)

Execute(call, w) ==
    CASE call.name = "Bash" -> executeBash(call, w)
      [] call.name = "Read" -> executeRead(call, w)
      [] call.name = "Write" -> executeWrite(call, w)
      [] call.name = "Edit" -> executeEdit(call, w)
      [] call.name = "MultiEdit" -> executeMultiEdit(call, w)
      [] call.name = "Glob" -> executeGlob(call, w)
      [] call.name = "Grep" -> executeGrep(call, w)
      [] call.name = "BashOutput" -> executeBashOutput(call, w)
      [] call.name = "KillBash" -> executeKillBash(call, w)
      [] OTHER -> Ret(ToolResult(call.id, "Unknown tool", <<call.name>>, TRUE, TRUE), w)

(***************************************************************************)
(* State.  world is what the executor acts on; execLog records the         *)
(* Execute calls made so far, each with its result and the world before    *)
(* and after it; pending holds the calls still to be issued.               *)
(***************************************************************************)
VARIABLES
    world, execLog, pending, bgMu, caller,   \* the executor
    tasks,                                   \* callers of the executor running side by side
    parser, sink, wire, received,            \* the stream parser
    messages, loop, net,                     \* the conversation loop
    config                                   \* the configuration the session starts from

execVars == <<world, execLog, pending, bgMu, caller, tasks>>
sseVars == <<parser, sink, wire, received>>
loopVars == <<messages, loop, net, config>>
vars == <<execVars, sseVars, loopVars>>

\* the parser before a stream is read (parseSSEStream's declarations)
EmptyResponse ==
    [id |-> "", role |-> "", model |-> "", content |-> <<>>, stop_reason |-> "",
     usage |-> [input_tokens |-> 0, output_tokens |-> 0]]
ParserStart ==
    [result |-> EmptyResponse, currentEvent |-> "",
     toolInputs |-> [i \in {} |-> <<>>], status |-> "reading", err |-> ""]
SinkStart == [text |-> <<>>, errors |-> 0, calls |-> 0]
WireStart ==
    [nData |-> 0, carried |-> [i \in {} |-> <<>>], starts |-> <<>>, wellFormed |-> TRUE,
     lastOk |-> TRUE]

SseIdle ==
    /\ parser = ParserStart
    /\ sink = SinkStart
    /\ wire = WireStart
    /\ received = <<>>

\* buildSystemPrompt: the fixed text, the working directory, the platform
\* and, when the directory has entries whose names do not begin with a dot,
\* their names
buildSystemPrompt(w) ==
    [cwd |-> "workDir", files |-> IF w.file.exists THEN <<PathF>> ELSE <<>>]
NoPrompt == [cwd |-> "", files |-> <<>>]

\* the session before its first message (NewSession)
\* runLoop's locals: where it is (pc), the iteration i, the response in
\* hand, the position k of the block being looked at, toolResults and
\* hasToolUse; gates remembers how each collected result was gated
LoopStart ==
    [pc |-> "idle", i |-> 0, resp |-> EmptyResponse, k |-> 0, toolResults |-> <<>>,
     hasToolUse |-> FALSE, gates |-> <<>>]
\* what the session has done so far: SendMessage calls, requests sent in
\* all, responses off the plain path, and for the SendMessage call in hand
\* its request/response cycles, whether every response held a tool_use
\* block, whether a request failed (and how), and what it returned; appended
\* holds in full the messages that the last appending step put on the history;
\* reported tells that display.TokenUsage was called; system is
\* Session.system, and systems the System fields of the requests made so far
NetStart ==
    [sends |-> 0, requests |-> 0, varied |-> 0, cycles |-> 0, allToolUse |-> TRUE,
     failed |-> FALSE, returned |-> "", cause |-> "", appended |-> <<>>,
     reported |-> FALSE, system |-> NoPrompt, systems |-> {}]

\* type Config, and the process before config.Load has run: no variable of
\* the environment set, no config file
Config(baseURL, apiKey, model, username, plan) ==
    [BaseURL |-> baseURL, APIKey |-> apiKey, Model |-> model,
     Username |-> username, Plan |-> plan]
EnvNames == {"APIPOD_BASE_URL", "APIPOD_API_KEY", "APIPOD_MODEL"}
NotSet == [set |-> FALSE, value |-> ""]
NoConfigFile == [readable |-> FALSE, decodes |-> FALSE, cfg |-> Config("", "", "", "", "")]
ConfigStart ==
    [env |-> [v \in EnvNames |-> NotSet], file |-> NoConfigFile,
     cfg |-> Config("", "", "", "", ""), loaded |-> FALSE]

LoopIdle ==
    /\ messages = <<>>
    /\ loop = LoopStart
    /\ net = NetStart
    /\ config = ConfigStart

\* the engine's thread when it is not inside a shell-tool call
Idle == [pc |-> "idle", call |-> [id |-> "", name |-> "", input |-> [k \in {} |-> [none |-> TRUE]]],
         shell |-> 0, exists |-> FALSE, output |-> <<>>, seen |-> 0]

\* no caller besides the engine's thread
NoTasks == [t \in {} |-> Idle]

NoInput == [k \in {} |-> Absent]

World(f, ro) == [file |-> f, readOnly |-> ro, shells |-> <<>>, bgShells |-> [h \in {} |-> 0]]

InitWorlds ==
    {World(f, ro) : f \in {NoFile} \cup {FileOf(t) : t \in TextsUpTo(MaxFileLen)},
                    ro \in BOOLEAN}

\* one Execute call, as the engine issues it (runLoop's s.executor.Execute)
Call(call) ==
    LET r == Execute(call, world) IN
    /\ world' = r.world
    /\ execLog' = Append(execLog, [call |-> call, result |-> r.result,
                                   before |-> world, after |-> r.world])
    /\ UNCHANGED <<sseVars, loopVars, tasks, bgMu, caller>>

(***************************************************************************)
(* SpecEdit: the file-changing tools.  The file, the write protection and  *)
(* the calls to come (pending: one MultiEdit call, or two Edit or Write    *)
(* calls in a row) are drawn at the start; each step issues the next call. *)
(***************************************************************************)
RECURSIVE SeqsOfLen(_, _)
SeqsOfLen(S, n) ==
    IF n = 0 THEN {<<>>}
    ELSE {<<x>> \o t : x \in S, t \in SeqsOfLen(S, n - 1)}

ToolCall(id, name, input) == [id |-> id, name |-> name, input |-> input]

FilePaths == {Absent, Str(PathF)}
EditOlds == {<<>>, <<"a">>, <<"a", "b">>}
EditNews == {<<>>, <<"b">>}

EditInputs ==
    {[file_path |-> p, old_string |-> Str(o), new_string |-> Str(n)] :
        p \in FilePaths, o \in EditOlds, n \in EditNews \cup {<<"a">>}}

EditEntries ==
    {Obj([old_string |-> Str(o), new_string |-> Str(n), replace_all |-> Bool(r)]) :
        o \in EditOlds, n \in EditNews, r \in BOOLEAN}
    \cup {Str(<<"a">>)}

MultiEditInputs ==
    {[file_path |-> Str(PathF), edits |-> Arr(es)] :
        es \in UNION {SeqsOfLen(EditEntries, n) : n \in 0..MaxEdits}}
    \cup {[file_path |-> Absent, edits |-> Arr(<<>>)],
          [file_path |-> Str(PathF), edits |-> Absent]}

WriteInputs ==
    {[file_path |-> p, content |-> c] :
        p \in FilePaths, c \in {Absent, Str(<<"a", "b">>)}}

EditCalls ==
    {ToolCall("t1", "Edit", i) : i \in EditInputs}
    \cup {ToolCall("t1", "Write", i) : i \in WriteInputs}

EditScripts ==
    {<<ToolCall("t1", "MultiEdit", i)>> : i \in MultiEditInputs}
    \cup {<<c1, c2>> : c1 \in EditCalls, c2 \in EditCalls}

InitEdit ==
    /\ world \in InitWorlds
    /\ pending \in EditScripts
    /\ execLog = <<>>
    /\ bgMu = ""
    /\ caller = Idle
    /\ tasks = NoTasks
    /\ SseIdle
    /\ LoopIdle

NextIs(name) == pending # <<>> /\ Head(pending).name = name
IssueNext == Call(Head(pending)) /\ pending' = Tail(pending)

CallEdit == NextIs("Edit") /\ IssueNext
CallMultiEdit == NextIs("MultiEdit") /\ IssueNext
CallWrite == NextIs("Write") /\ IssueNext

NextEdit == CallEdit \/ CallMultiEdit \/ CallWrite

SpecEdit == InitEdit /\ [][NextEdit]_vars

(***************************************************************************)
(* Properties of the file-changing tools.                                  *)
(***************************************************************************)
\* the number of places where t occurs in s
Occurrences(s, t) == Cardinality({i \in 1..Len(s) : HasPrefixAt(s, t, i)})

OldOf(m) == AsString(Get(m, "old_string"))
NewOf(m) == AsString(Get(m, "new_string"))

\* an entry of edits is valid against the in-memory text
EntryValid(text, raw) ==
    /\ IsObj(raw)
    /\ OldOf(raw.obj) # <<>>
    /\ \E i \in 1..Len(text) : HasPrefixAt(text, OldOf(raw.obj), i)

\* the in-memory text produced by the first k edits
RECURSIVE TextAfter(_, _, _)
TextAfter(text, edits, k) ==
    IF k = 0 THEN text
    ELSE LET t == TextAfter(text, edits, k - 1)
             raw == edits[k]
         IN  IF ~IsObj(raw) THEN t
             ELSE IF AsBool(Get(raw.obj, "replace_all"))
             THEN ReplaceAll(t, OldOf(raw.obj), NewOf(raw.obj))
             ELSE ReplaceFirst(t, OldOf(raw.obj), NewOf(raw.obj))

InvalidAt(text, edits, k) == ~EntryValid(TextAfter(text, edits, k - 1), edits[k])

IsMultiEditOnFile(e) ==
    /\ e.call.name = "MultiEdit"
    /\ AsString(Get(e.call.input, "file_path")) = PathF
    /\ IsArr(Get(e.call.input, "edits"))
    /\ e.before.file.exists

\* C1: MultiEdit is atomic.  If some edit k of the list is invalid (not an
\* edit object, an empty old_string, or an old_string that does not occur
\* in the text produced by edits 1..k-1), the call returns is_error and the
\* file is what it was before the call; and whenever a MultiEdit call
\* changes the file, every edit was valid and the file holds the text
\* produced by all of them.
C1_MultiEditAtomic ==
    \A n \in 1..Len(execLog) :
        LET e == execLog[n] IN
        /\ IsMultiEditOnFile(e) =>
              LET es == Get(e.call.input, "edits").arr
                  t0 == e.before.file.content
              IN  (\E k \in 1..Len(es) : InvalidAt(t0, es, k)) =>
                      /\ e.result.is_error
                      /\ e.after.file = e.before.file
        /\ (e.call.name = "MultiEdit" /\ e.after.file # e.before.file) =>
              /\ IsMultiEditOnFile(e)
              /\ LET es == Get(e.call.input, "edits").arr
                     t0 == e.before.file.content
                 IN  /\ \A k \in 1..Len(es) : ~InvalidAt(t0, es, k)
                     /\ e.after.file = FileOf(TextAfter(t0, es, Len(es)))

\* a MultiEdit call whose first edit applies and changes the in-memory text
\* and whose second edit is invalid
C1_Witness ==
    \E n \in 1..Len(execLog) :
        LET e == execLog[n] IN
        /\ IsMultiEditOnFile(e)
        /\ ~e.before.readOnly
        /\ LET es == Get(e.call.input, "edits").arr
               t0 == e.before.file.content
           IN  /\ Len(es) = 2
               /\ ~InvalidAt(t0, es, 1)
               /\ TextAfter(t0, es, 1) # t0
               /\ InvalidAt(t0, es, 2)
        /\ e.result.is_error
        /\ e.after.file = e.before.file

IsEditOnFile(e) ==
    /\ e.call.name = "Edit"
    /\ AsString(Get(e.call.input, "file_path")) = PathF
    /\ e.before.file.exists
    /\ ~e.before.readOnly

\* the first call of C10's scenario: an Edit of a file that holds old_string
\* exactly once, after which the file no longer holds old_string
EditedAway(e) ==
    /\ IsEditOnFile(e)
    /\ Occurrences(e.before.file.content, OldOf(e.call.input)) = 1
    /\ Occurrences(e.after.file.content, OldOf(e.call.input)) = 0

\* C10: Edit is not idempotent.  An Edit with an empty old_string is an
\* error and changes nothing.  An Edit whose old_string occurs in the file
\* succeeds and replaces the first occurrence only.  When the file held
\* old_string exactly once and new_string did not bring it back, an
\* identical second Edit returns "String not found in file" with is_error
\* and leaves the file as the first call left it.
C10_EditNotIdempotent ==
    \A n \in 1..Len(execLog) :
        LET e == execLog[n]
            old == OldOf(e.call.input)
            new == NewOf(e.call.input)
            t0 == e.before.file.content
        IN  /\ (e.call.name = "Edit" /\ old = <<>>) =>
                  e.result.is_error /\ e.after = e.before
            /\ (IsEditOnFile(e) /\ old # <<>> /\ Occurrences(t0, old) >= 1) =>
                  /\ ~e.result.is_error
                  /\ \E i \in 1..Len(t0) :
                        /\ HasPrefixAt(t0, old, i)
                        /\ \A j \in 1..(i - 1) : ~HasPrefixAt(t0, old, j)
                        /\ e.after.file.content =
                              SubSeq(t0, 1, i - 1) \o new \o SubSeq(t0, i + Len(old), Len(t0))
            /\ (n > 1 /\ EditedAway(execLog[n - 1])
                      /\ e.call.name = "Edit"
                      /\ e.call.input = execLog[n - 1].call.input) =>
                  /\ e.result.is_error
                  /\ e.result.content.msg = "String not found in file"
                  /\ e.after.file = e.before.file

\* two identical Edit calls in a row, the first of which succeeded on a file
\* holding old_string once
C10_Witness ==
    /\ Len(execLog) = 2
    /\ EditedAway(execLog[1])
    /\ ~execLog[1].result.is_error
    /\ execLog[2].call = execLog[1].call
    /\ execLog[2].result.is_error

(***************************************************************************)
(* SpecExec: Execute on every tool.  One call of any tool on any file, or  *)
(* a backgrounded Bash followed by a shell-tool call; the background       *)
(* process and its reader task run in between.                             *)
(***************************************************************************)
\* the process of shell i does its next step: it prints a chunk into the
\* stdout pipe or writes the file
ProcStep(i) ==
    LET sh == world.shells[i]
        prog == Program(sh.cmd)
    IN  /\ ~sh.killed
        /\ sh.pos < Len(prog)
        /\ world' = [world EXCEPT
               !.shells[i].pos = sh.pos + 1,
               !.shells[i].pipe = IF prog[sh.pos + 1].kind = "out"
                                  THEN sh.pipe \o prog[sh.pos + 1].text ELSE sh.pipe,
               !.file = StepFile(prog[sh.pos + 1], world)]
        /\ UNCHANGED <<sseVars, loopVars, tasks, execLog, pending, bgMu, caller>>

\* the reader task of shell i: stdout.Read returns some of the bytes in the
\* pipe, which are appended to shell.output under shell.mu
ReaderStep(i) ==
    LET sh == world.shells[i] IN
    /\ sh.pipe # <<>>
    /\ \E k \in 1..Len(sh.pipe) :
          world' = [world EXCEPT
              !.shells[i].pipe = SubSeq(sh.pipe, k + 1, Len(sh.pipe)),
              !.shells[i].output = sh.output \o SubSeq(sh.pipe, 1, k),
              !.shells[i].appended = sh.appended + k]
    /\ UNCHANGED <<sseVars, loopVars, tasks, execLog, pending, bgMu, caller>>

ProcSteps == \E i \in 1..Len(world.shells) : ProcStep(i)
ReaderSteps == \E i \in 1..Len(world.shells) : ReaderStep(i)

BashInputs ==
    {[command |-> c, run_in_background |-> Absent] :
        c \in {Absent, Str(CmdEcho), Str(CmdFalse), Str(CmdWrite), Str(<<"nope">>)}}
    \cup {[command |-> Str(CmdTwo), run_in_background |-> Bool(TRUE)]}
ReadInputs ==
    {[file_path |-> p, offset |-> o, limit |-> l] :
        p \in FilePaths, o \in {Absent, Num(0), Num(2)}, l \in {Absent, Num(1)}}
GlobInputs == {[pattern |-> p] : p \in {Absent, Str(PathF), Str(<<"*">>), Str(BadPattern)}}
GrepInputs ==
    {[pattern |-> p, path |-> q] :
        p \in {Absent, Str(<<"a">>), Str(BadPattern)},
        q \in {Absent, Str(PathF), Str(PathNone)}}
BashOutputInputs == {[bash_id |-> h] : h \in {Absent, Str(<<"t1">>), Str(<<"t9">>)}}
KillBashInputs == {[shell_id |-> h] : h \in {Absent, Str(<<"t1">>), Str(<<"t9">>)}}

ShellCalls ==
    {ToolCall("t2", "BashOutput", i) : i \in BashOutputInputs}
    \cup {ToolCall("t2", "KillBash", i) : i \in KillBashInputs}

\* the calls on the handle of the script's background shell
OnHandle ==
    {ToolCall("t2", "BashOutput", [bash_id |-> Str(<<"t1">>)]),
     ToolCall("t2", "KillBash", [shell_id |-> Str(<<"t1">>)])}

ExecCalls ==
    {ToolCall("t1", "Bash", i) : i \in BashInputs}
    \cup {ToolCall("t1", "Read", i) : i \in ReadInputs}
    \cup {ToolCall("t1", "Write", i) : i \in WriteInputs}
    \cup {ToolCall("t1", "Edit", i) : i \in EditInputs}
    \cup {ToolCall("t1", "MultiEdit", [file_path |-> Str(PathF), edits |-> Arr(es)]) :
             es \in SeqsOfLen(EditEntries, 1)}
    \cup {ToolCall("t1", "Glob", i) : i \in GlobInputs}
    \cup {ToolCall("t1", "Grep", i) : i \in GrepInputs}
    \cup {ToolCall("t1", "Task", NoInput)}
    \cup ShellCalls

ExecScripts ==
    {<<c>> : c \in ExecCalls}
    \cup {<<ToolCall("t1", "Bash", [command |-> Str(CmdTwo), run_in_background |-> Bool(TRUE)]),
            c1, c2>> : c1 \in ShellCalls, c2 \in ShellCalls}
    \cup {<<ToolCall("t1", "Bash", [command |-> Str(CmdTwo), run_in_background |-> Bool(TRUE)]),
            ToolCall("t2", "KillBash", [shell_id |-> Str(<<"t1">>)]),
            c1,
            ToolCall("t1", "Bash", [command |-> Str(CmdEcho), run_in_background |-> Bool(TRUE)]),
            c2>> : c1 \in OnHandle, c2 \in OnHandle}

InitExec ==
    /\ world \in InitWorlds
    /\ pending \in ExecScripts
    /\ execLog = <<>>
    /\ bgMu = ""
    /\ caller = Idle
    /\ tasks = NoTasks
    /\ SseIdle
    /\ LoopIdle

CallBash == NextIs("Bash") /\ IssueNext
CallRead == NextIs("Read") /\ IssueNext
CallGlob == NextIs("Glob") /\ IssueNext
CallGrep == NextIs("Grep") /\ IssueNext
CallBashOutput == NextIs("BashOutput") /\ IssueNext
CallKillBash == NextIs("KillBash") /\ IssueNext
CallUnknown == NextIs("Task") /\ IssueNext

NextExec ==
    \/ CallBash \/ CallRead \/ CallWrite \/ CallEdit \/ CallMultiEdit
    \/ CallGlob \/ CallGrep \/ CallBashOutput \/ CallKillBash \/ CallUnknown
    \/ ProcSteps \/ ReaderSteps

SpecExec == InitExec /\ [][NextExec]_vars

\* C6: Execute is total and every failure path returns is_error: each call
\* yields a ToolResult carrying the call's id, and a result of a tool that
\* failed to do its work (a missing parameter, an unknown tool or handle, a
\* file error, a command that failed) has is_error set.
C6_FailureIsError ==
    \A n \in 1..Len(execLog) :
        LET e == execLog[n] IN
        /\ e.result.tool_use_id = e.call.id
        /\ e.result.failed => e.result.is_error

(***************************************************************************)
(* SpecRead: Read over files of several lines.  The files are the texts    *)
(* of letters and line ends up to MaxReadLen characters and one file of    *)
(* ten lines; offset and limit range over absent, zero, negative and       *)
(* positive numbers on both sides of the number of lines.                  *)
(***************************************************************************)
MaxReadLen == 4

RECURSIVE LinesOfLen(_)
LinesOfLen(n) ==
    IF n = 0 THEN {<<>>}
    ELSE {<<c>> \o t : c \in {"a", "\n"}, t \in LinesOfLen(n - 1)}

TenLines ==
    <<"a", "\n", "b", "\n", "a", "\n", "b", "\n", "a", "\n",
      "b", "\n", "a", "\n", "b", "\n", "a", "\n", "b">>

ReadTexts == UNION {LinesOfLen(k) : k \in 0..MaxReadLen} \cup {TenLines}

WindowInputs ==
    {[file_path |-> Str(PathF), offset |-> o, limit |-> l] :
        o \in {Absent} \cup {Num(k) : k \in (0 - 1)..(MaxReadLen + 2)},
        l \in {Absent} \cup {Num(k) : k \in (0 - 1)..MaxReadLen}}

InitRead ==
    /\ world \in {World(FileOf(t), FALSE) : t \in ReadTexts}
    /\ pending \in {<<ToolCall("t1", "Read", i)>> : i \in WindowInputs}
    /\ execLog = <<>>
    /\ bgMu = ""
    /\ caller = Idle
    /\ tasks = NoTasks
    /\ SseIdle
    /\ LoopIdle

NextRead == CallRead

SpecRead == InitRead /\ [][NextRead]_vars

Max(a, b) == IF a > b THEN a ELSE b
Min(a, b) == IF a < b THEN a ELSE b

\* C18: Read applies a 1-based window.  With the file split into L lines, an
\* offset o (below 1 taken as the first line) and a positive limit n, the
\* result holds exactly the lines max(o,1) .. min(max(o,1)+n-1, L), each with
\* its own 1-based number, and is_error is false; when the offset lies beyond
\* the last line the result has is_error set.
C18_ReadWindow ==
    \A q \in 1..Len(execLog) :
        LET e == execLog[q]
            vo == Get(e.call.input, "offset")
            vl == Get(e.call.input, "limit")
            lines == Split(e.before.file.content, "\n")
            L == Len(lines)
            first == Max(vo.num, 1)
            last == Min(first + vl.num - 1, L)
        IN  (/\ e.call.name = "Read"
             /\ e.before.file.exists
             /\ IsNum(vo)
             /\ IsNum(vl) /\ vl.num > 0) =>
            IF first > L
            THEN e.result.is_error
            ELSE /\ ~e.result.is_error
                 /\ e.result.content.data =
                        [k \in 1..(last - first + 1) |->
                            [n |-> first + k - 1, text |-> lines[first + k - 1]]]
                 /\ e.after = e.before

\* offset 5 and limit 3 on the file of ten lines gave the lines 5 to 7
C18_Witness ==
    /\ Len(execLog) = 1
    /\ execLog[1].before.file.content = TenLines
    /\ Get(execLog[1].call.input, "offset") = Num(5)
    /\ Get(execLog[1].call.input, "limit") = Num(3)
    /\ ~execLog[1].result.is_error
    /\ execLog[1].result.content.data =
           <<[n |-> 5, text |-> <<"a">>], [n |-> 6, text |-> <<"b">>], [n |-> 7, text |-> <<"a">>]>>

\* the handle a BashOutput or KillBash call names ("" when it names none)
NamedHandle(call) ==
    LET h == AsString(Get(call.input, IF call.name = "KillBash" THEN "shell_id" ELSE "bash_id"))
    IN  IF h = <<>> THEN "" ELSE h[1]

IsShellCall(call) == call.name \in {"BashOutput", "KillBash"} /\ NamedHandle(call) # ""

Registers(call, h) ==
    /\ call.name = "Bash"
    /\ call.id = h
    /\ AsBool(Get(call.input, "run_in_background"))

\* C15: KillBash on a registered handle removes it from the registry and
\* terminates its process; KillBash or BashOutput on a handle that is not in
\* the registry returns is_error and leaves the registry and every shell
\* buffer as they were; and after a successful KillBash(h) every later
\* KillBash(h) or BashOutput(h) fails until h is registered again.
C15_KillUnregisters ==
    \A n \in 1..Len(execLog) :
        LET e == execLog[n]
            h == NamedHandle(e.call)
        IN  IsShellCall(e.call) =>
            /\ (e.call.name = "KillBash" /\ h \in DOMAIN e.before.bgShells) =>
                   /\ ~e.result.is_error
                   /\ h \notin DOMAIN e.after.bgShells
                   /\ e.after.shells[e.before.bgShells[h]].killed
                   /\ \A m \in (n + 1)..Len(execLog) :
                          (/\ IsShellCall(execLog[m].call)
                           /\ NamedHandle(execLog[m].call) = h
                           /\ \A k \in (n + 1)..(m - 1) : ~Registers(execLog[k].call, h))
                          => execLog[m].result.is_error
            /\ h \notin DOMAIN e.before.bgShells =>
                   /\ e.result.is_error
                   /\ e.after = e.before

\* a handle was killed, a call on it failed, and after it was registered
\* again a call on it succeeded
C15_Witness ==
    \E n \in 1..Len(execLog) : \E m \in (n + 1)..Len(execLog) :
        /\ execLog[n].call.name = "KillBash"
        /\ ~execLog[n].result.is_error
        /\ IsShellCall(execLog[m].call)
        /\ NamedHandle(execLog[m].call) = NamedHandle(execLog[n].call)
        /\ execLog[m].result.is_error
        /\ \E k \in (m + 1)..Len(execLog) :
              /\ IsShellCall(execLog[k].call)
              /\ NamedHandle(execLog[k].call) = NamedHandle(execLog[n].call)
              /\ ~execLog[k].result.is_error

(***************************************************************************)
(* SpecShell: the background shells statement by statement.  The engine's  *)
(* thread (caller) runs executeBashBackground, executeBashOutput and       *)
(* executeKillBash one shared access at a time, while the process and the  *)
(* reader task of every shell run on their own.                            *)
(***************************************************************************)
MaxShellCalls == 2

\* sync.Mutex.Lock returns only when nobody holds the mutex
CanLock_NoExclusion(holder) == TRUE
CanLock(holder) == holder = ""

HandleOf(v) == IF AsString(v) = <<>> THEN "" ELSE AsString(v)[1]

Log(call, res, shell, drained, seen) ==
    [call |-> call, result |-> res, shell |-> shell, drained |-> drained, seen |-> seen]

Begin(name, pc) ==
    /\ caller.pc = "idle"
    /\ NextIs(name)
    /\ caller' = [Idle EXCEPT !.pc = pc, !.call = Head(pending)]
    /\ pending' = Tail(pending)

\* a call that returns at once because its parameter is missing
Reject(name, key, msg) ==
    /\ caller.pc = "idle"
    /\ NextIs(name)
    /\ AsString(Get(Head(pending).input, key)) = <<>>
    /\ execLog' = Append(execLog,
           Log(Head(pending), ToolResult(Head(pending).id, msg, <<>>, TRUE, TRUE), 0, <<>>, 0))
    /\ pending' = Tail(pending)
    /\ UNCHANGED <<sseVars, loopVars, tasks, world, bgMu, caller>>

Return(res, shell, drained, seen) ==
    /\ execLog' = Append(execLog, Log(caller.call, res, shell, drained, seen))
    /\ caller' = Idle

\* executeBashBackground ------------------------------------------------
BG_Reject ==
    /\ NextIs("Bash")
    /\ Reject("Bash", "command", "Missing required parameter: command")

\* cmd.Start(): the process runs from here on
BG_Start ==
    /\ caller.pc = "idle"
    /\ NextIs("Bash")
    /\ AsString(Get(Head(pending).input, "command")) # <<>>
    /\ AsBool(Get(Head(pending).input, "run_in_background"))
    /\ pending' = Tail(pending)
    /\ world' = [world EXCEPT !.shells =
           Append(world.shells, NewShell(AsString(Get(Head(pending).input, "command"))))]
    /\ caller' = [Idle EXCEPT !.pc = "bg_reg_lock", !.call = Head(pending),
                              !.shell = Len(world.shells) + 1]
    /\ UNCHANGED <<sseVars, loopVars, tasks, execLog, bgMu>>

BG_RegLock ==
    /\ caller.pc = "bg_reg_lock"
    /\ CanLock(bgMu)
    /\ bgMu' = "caller"
    /\ caller' = [caller EXCEPT !.pc = "bg_insert"]
    /\ UNCHANGED <<sseVars, loopVars, tasks, world, execLog, pending>>

\* a launch that returns without having put the shell into the registry
BG_Insert_Nothing ==
    /\ caller.pc = "bg_insert"
    /\ caller' = [caller EXCEPT !.pc = "bg_reg_unlock"]
    /\ UNCHANGED <<sseVars, loopVars, tasks, world, execLog, pending, bgMu>>

BG_Insert ==
    /\ caller.pc = "bg_insert"
    /\ world' = [world EXCEPT !.bgShells = (caller.call.id :> caller.shell) @@ world.bgShells]
    /\ caller' = [caller EXCEPT !.pc = "bg_reg_unlock"]
    /\ UNCHANGED <<sseVars, loopVars, tasks, execLog, pending, bgMu>>

BG_RegUnlock ==
    /\ caller.pc = "bg_reg_unlock"
    /\ bgMu' = ""
    /\ caller' = [caller EXCEPT !.pc = "bg_spawn"]
    /\ UNCHANGED <<sseVars, loopVars, tasks, world, execLog, pending>>

\* go func() {...}() and the return
BG_Spawn ==
    /\ caller.pc = "bg_spawn"
    /\ world' = [world EXCEPT !.shells[caller.shell].rpc = "read"]
    /\ Return(ToolResult(caller.call.id, "Background process started",
                         <<caller.call.id>>, FALSE, FALSE), caller.shell, <<>>, 0)
    /\ UNCHANGED <<sseVars, loopVars, tasks, pending, bgMu>>

\* the reader task of shell i -------------------------------------------
\* stdout.Read: some of the bytes in the pipe, or EOF once the process has
\* ended and the pipe is empty
\* a reader task that takes its shell out of the registry when the output ends
R_Read_Unregisters(i) ==
    LET sh == world.shells[i] IN
    /\ sh.rpc = "read"
    /\ \/ /\ sh.pipe # <<>>
          /\ \E k \in 1..Len(sh.pipe) :
                world' = [world EXCEPT
                    !.shells[i].pipe = SubSeq(sh.pipe, k + 1, Len(sh.pipe)),
                    !.shells[i].buf = SubSeq(sh.pipe, 1, k),
                    !.shells[i].rpc = "lock"]
       \/ /\ sh.pipe = <<>>
          /\ sh.killed \/ sh.pos = Len(Program(sh.cmd))
          /\ world' = [world EXCEPT
                 !.shells[i].rpc = "done",
                 !.bgShells = [h \in {g \in DOMAIN world.bgShells : world.bgShells[g] # i}
                                 |-> world.bgShells[h]]]
    /\ UNCHANGED <<sseVars, loopVars, tasks, execLog, pending, bgMu, caller>>

R_Read(i) ==
    LET sh == world.shells[i] IN
    /\ sh.rpc = "read"
    /\ \/ /\ sh.pipe # <<>>
          /\ \E k \in 1..Len(sh.pipe) :
                world' = [world EXCEPT
                    !.shells[i].pipe = SubSeq(sh.pipe, k + 1, Len(sh.pipe)),
                    !.shells[i].buf = SubSeq(sh.pipe, 1, k),
                    !.shells[i].rpc = "lock"]
       \/ /\ sh.pipe = <<>>
          /\ sh.killed \/ sh.pos = Len(Program(sh.cmd))
          /\ world' = [world EXCEPT !.shells[i].rpc = "done"]
    /\ UNCHANGED <<sseVars, loopVars, tasks, execLog, pending, bgMu, caller>>

R_Lock(i) ==
    LET sh == world.shells[i] IN
    /\ sh.rpc = "lock"
    /\ CanLock(sh.mu)
    /\ world' = [world EXCEPT !.shells[i].mu = "reader", !.shells[i].rpc = "write"]
    /\ UNCHANGED <<sseVars, loopVars, tasks, execLog, pending, bgMu, caller>>

R_Write(i) ==
    LET sh == world.shells[i] IN
    /\ sh.rpc = "write"
    /\ world' = [world EXCEPT !.shells[i].output = sh.output \o sh.buf,
                              !.shells[i].appended = sh.appended + Len(sh.buf),
                              !.shells[i].buf = <<>>,
                              !.shells[i].rpc = "unlock"]
    /\ UNCHANGED <<sseVars, loopVars, tasks, execLog, pending, bgMu, caller>>

R_Unlock(i) ==
    LET sh == world.shells[i] IN
    /\ sh.rpc = "unlock"
    /\ world' = [world EXCEPT !.shells[i].mu = "", !.shells[i].rpc = "read"]
    /\ UNCHANGED <<sseVars, loopVars, tasks, execLog, pending, bgMu, caller>>

R_Reads == \E i \in 1..Len(world.shells) : R_Read(i)
R_Locks == \E i \in 1..Len(world.shells) : R_Lock(i)
R_Writes == \E i \in 1..Len(world.shells) : R_Write(i)
R_Unlocks == \E i \in 1..Len(world.shells) : R_Unlock(i)

\* executeBashOutput ----------------------------------------------------
BO_Reject ==
    /\ NextIs("BashOutput")
    /\ Reject("BashOutput", "bash_id", "Missing required parameter: bash_id")

BO_Begin ==
    /\ Begin("BashOutput", "bo_reg_lock")
    /\ AsString(Get(Head(pending).input, "bash_id")) # <<>>
    /\ UNCHANGED <<sseVars, loopVars, tasks, world, execLog, bgMu>>

BO_RegLock ==
    /\ caller.pc = "bo_reg_lock"
    /\ CanLock(bgMu)
    /\ bgMu' = "caller"
    /\ caller' = [caller EXCEPT !.pc = "bo_lookup"]
    /\ UNCHANGED <<sseVars, loopVars, tasks, world, execLog, pending>>

BO_Lookup ==
    LET id == HandleOf(Get(caller.call.input, "bash_id")) IN
    /\ caller.pc = "bo_lookup"
    /\ caller' = [caller EXCEPT
           !.pc = "bo_reg_unlock",
           !.exists = id \in DOMAIN world.bgShells,
           !.shell = IF id \in DOMAIN world.bgShells THEN world.bgShells[id] ELSE 0]
    /\ UNCHANGED <<sseVars, loopVars, tasks, world, execLog, pending, bgMu>>

BO_RegUnlock ==
    /\ caller.pc = "bo_reg_unlock"
    /\ bgMu' = ""
    /\ IF caller.exists
       THEN /\ caller' = [caller EXCEPT !.pc = "bo_sh_lock"]
            /\ UNCHANGED execLog
       ELSE Return(ToolResult(caller.call.id, "No background shell",
                              <<HandleOf(Get(caller.call.input, "bash_id"))>>, TRUE, TRUE),
                   0, <<>>, 0)
    /\ UNCHANGED <<sseVars, loopVars, tasks, world, pending>>

BO_ShLock ==
    /\ caller.pc = "bo_sh_lock"
    /\ CanLock(world.shells[caller.shell].mu)
    /\ world' = [world EXCEPT !.shells[caller.shell].mu = "caller"]
    /\ caller' = [caller EXCEPT !.pc = "bo_string"]
    /\ UNCHANGED <<sseVars, loopVars, tasks, execLog, pending, bgMu>>

\* output := shell.output.String()
BO_String ==
    /\ caller.pc = "bo_string"
    /\ caller' = [caller EXCEPT !.pc = "bo_reset",
                                !.output = world.shells[caller.shell].output,
                                !.seen = world.shells[caller.shell].appended]
    /\ UNCHANGED <<sseVars, loopVars, tasks, world, execLog, pending, bgMu>>

\* shell.output.Reset()
BO_Reset ==
    /\ caller.pc = "bo_reset"
    /\ world' = [world EXCEPT !.shells[caller.shell].output = <<>>]
    /\ caller' = [caller EXCEPT !.pc = "bo_sh_unlock"]
    /\ UNCHANGED <<sseVars, loopVars, tasks, execLog, pending, bgMu>>

BO_ShUnlock ==
    /\ caller.pc = "bo_sh_unlock"
    /\ world' = [world EXCEPT !.shells[caller.shell].mu = ""]
    /\ Return(ToolResult(caller.call.id, "Output",
                         IF caller.output = <<>> THEN <<"(no new output)">> ELSE caller.output,
                         FALSE, FALSE),
              caller.shell, caller.output, caller.seen)
    /\ UNCHANGED <<sseVars, loopVars, tasks, pending, bgMu>>

\* executeKillBash ------------------------------------------------------
KB_Reject ==
    /\ NextIs("KillBash")
    /\ Reject("KillBash", "shell_id", "Missing required parameter: shell_id")

KB_Begin ==
    /\ Begin("KillBash", "kb_reg_lock")
    /\ AsString(Get(Head(pending).input, "shell_id")) # <<>>
    /\ UNCHANGED <<sseVars, loopVars, tasks, world, execLog, bgMu>>

KB_RegLock ==
    /\ caller.pc = "kb_reg_lock"
    /\ CanLock(bgMu)
    /\ bgMu' = "caller"
    /\ caller' = [caller EXCEPT !.pc = "kb_delete"]
    /\ UNCHANGED <<sseVars, loopVars, tasks, world, execLog, pending>>

\* shell, exists := e.bgShells[shellID]; if exists { delete(...) }
KB_Delete ==
    LET id == HandleOf(Get(caller.call.input, "shell_id")) IN
    /\ caller.pc = "kb_delete"
    /\ caller' = [caller EXCEPT
           !.pc = "kb_reg_unlock",
           !.exists = id \in DOMAIN world.bgShells,
           !.shell = IF id \in DOMAIN world.bgShells THEN world.bgShells[id] ELSE 0]
    /\ world' = [world EXCEPT
           !.bgShells = [h \in (DOMAIN world.bgShells) \ {id} |-> world.bgShells[h]]]
    /\ UNCHANGED <<sseVars, loopVars, tasks, execLog, pending, bgMu>>

KB_RegUnlock ==
    /\ caller.pc = "kb_reg_unlock"
    /\ bgMu' = ""
    /\ IF caller.exists
       THEN /\ caller' = [caller EXCEPT !.pc = "kb_kill"]
            /\ UNCHANGED execLog
       ELSE Return(ToolResult(caller.call.id, "No background shell",
                              <<HandleOf(Get(caller.call.input, "shell_id"))>>, TRUE, TRUE),
                   0, <<>>, 0)
    /\ UNCHANGED <<sseVars, loopVars, tasks, world, pending>>

\* shell.cmd.Process.Kill() and the return
KB_Kill ==
    /\ caller.pc = "kb_kill"
    /\ world' = [world EXCEPT !.shells[caller.shell].killed = TRUE]
    /\ Return(ToolResult(caller.call.id, "Shell terminated",
                         <<HandleOf(Get(caller.call.input, "shell_id"))>>, FALSE, FALSE),
              caller.shell, <<>>, 0)
    /\ UNCHANGED <<sseVars, loopVars, tasks, pending, bgMu>>

BgCall(id, cmd) ==
    ToolCall(id, "Bash", [command |-> Str(cmd), run_in_background |-> Bool(TRUE)])

ShellFollowCalls ==
    {ToolCall("t2", "BashOutput", [bash_id |-> Str(<<"t1">>)]),
     ToolCall("t3", "KillBash", [shell_id |-> Str(<<"t1">>)]),
     BgCall("t1", CmdEcho)}

ShellScripts ==
    {<<BgCall("t1", CmdTwo)>> \o t :
        t \in UNION {SeqsOfLen(ShellFollowCalls, n) : n \in 0..MaxShellCalls}}
    \cup {<<ToolCall("t1", "Bash", [command |-> Absent, run_in_background |-> Bool(TRUE)])>>,
          <<ToolCall("t1", "BashOutput", [bash_id |-> Absent])>>,
          <<ToolCall("t1", "KillBash", [shell_id |-> Absent])>>}

InitShell ==
    /\ world = World(FileOf(<<"a">>), FALSE)
    /\ pending \in ShellScripts
    /\ execLog = <<>>
    /\ bgMu = ""
    /\ caller = Idle
    /\ tasks = NoTasks
    /\ SseIdle
    /\ LoopIdle

Process == ProcSteps

NextShell ==
    \/ BG_Reject \/ BG_Start \/ BG_RegLock \/ BG_Insert \/ BG_RegUnlock \/ BG_Spawn
    \/ BO_Reject \/ BO_Begin \/ BO_RegLock \/ BO_Lookup \/ BO_RegUnlock
    \/ BO_ShLock \/ BO_String \/ BO_Reset \/ BO_ShUnlock
    \/ KB_Reject \/ KB_Begin \/ KB_RegLock \/ KB_Delete \/ KB_RegUnlock \/ KB_Kill
    \/ R_Reads \/ R_Locks \/ R_Writes \/ R_Unlocks
    \/ Process

SpecShell == InitShell /\ [][NextShell]_vars

(***************************************************************************)
(* Properties of the background shells.                                    *)
(***************************************************************************)
\* the chunks the process of a shell has printed so far
RECURSIVE Printed(_, _)
Printed(prog, n) ==
    IF n = 0 THEN <<>>
    ELSE Printed(prog, n - 1) \o (IF prog[n].kind = "out" THEN prog[n].text ELSE <<>>)

IsDrain(e) == e.call.name = "BashOutput" /\ e.shell # 0

\* the output the BashOutput calls among the first n calls returned for shell i
RECURSIVE Delivered(_, _)
Delivered(i, n) ==
    IF n = 0 THEN <<>>
    ELSE Delivered(i, n - 1) \o
         (IF IsDrain(execLog[n]) /\ execLog[n].shell = i
             /\ execLog[n].result.content.data # <<"(no new output)">>
          THEN execLog[n].result.content.data ELSE <<>>)

\* C7: BashOutput drains atomically.  Whenever the engine is between calls,
\* for every shell what BashOutput has returned so far, followed by what is
\* in the buffer, in the reader's hands and in the pipe, is exactly what the
\* process has printed, in order: no chunk is returned twice or lost.  A
\* BashOutput on a registered handle is never an error, and returns
\* "(no new output)" exactly when it found the buffer empty; so of two
\* consecutive BashOutput calls on a shell with no append by the reader in
\* between, the second returns "(no new output)".
C7_DrainAtomic ==
    /\ caller.pc = "idle" =>
          \A i \in 1..Len(world.shells) :
              LET sh == world.shells[i] IN
              Delivered(i, Len(execLog)) \o sh.output \o sh.buf \o sh.pipe
                  = Printed(Program(sh.cmd), sh.pos)
    /\ \A n \in 1..Len(execLog) :
          LET e == execLog[n] IN
          IsDrain(e) =>
              /\ ~e.result.is_error
              /\ e.result.content.data =
                    IF e.drained = <<>> THEN <<"(no new output)">> ELSE e.drained
              /\ (n > 1 /\ IsDrain(execLog[n - 1]) /\ execLog[n - 1].shell = e.shell
                        /\ execLog[n - 1].seen = e.seen) =>
                    e.result.content.data = <<"(no new output)">>

\* two consecutive BashOutput calls on a shell: the first returned both
\* chunks of the process, the second the sentinel
C7_Witness ==
    /\ caller.pc = "idle"
    /\ Len(execLog) = 3
    /\ IsDrain(execLog[2]) /\ IsDrain(execLog[3])
    /\ execLog[2].result.content.data = <<"x", "y">>
    /\ execLog[3].result.content.data = <<"(no new output)">>

\* a KillBash of handle h that has returned after entry n of the log, or is
\* under way
KilledSince(h, n, m) ==
    \E k \in (n + 1)..m :
        /\ execLog[k].call.name = "KillBash"
        /\ NamedHandle(execLog[k].call) = h
        /\ ~execLog[k].result.is_error

KillUnderWay(h) ==
    /\ caller.pc # "idle"
    /\ caller.call.name = "KillBash"
    /\ NamedHandle(caller.call) = h

\* C16: a backgrounded Bash call returns a result naming the handle id, which
\* is the id of the tool call, without waiting for the process to end, and
\* from its return on the shell is in the registry under that id: a
\* BashOutput on the handle issued at any time after the return (and before a
\* KillBash of the handle) finds it.
C16_RegisteredAtReturn ==
    \A n \in 1..Len(execLog) :
        LET e == execLog[n]
            h == e.call.id
        IN  (Registers(e.call, h) /\ ~e.result.is_error) =>
            /\ e.result.content.data = <<h>>
            /\ (~KilledSince(h, n, Len(execLog)) /\ ~KillUnderWay(h))
                   => h \in DOMAIN world.bgShells
            /\ \A m \in (n + 1)..Len(execLog) :
                   (/\ execLog[m].call.name = "BashOutput"
                    /\ NamedHandle(execLog[m].call) = h
                    /\ ~KilledSince(h, n, m))
                   => ~execLog[m].result.is_error

\* the launch has returned and a BashOutput has found the handle while the
\* process has not yet run to its end
C16_Witness ==
    \E n \in 1..Len(execLog) : \E m \in (n + 1)..Len(execLog) :
        /\ Registers(execLog[n].call, execLog[n].call.id)
        /\ execLog[m].call.name = "BashOutput"
        /\ NamedHandle(execLog[m].call) = execLog[n].call.id
        /\ ~execLog[m].result.is_error
        /\ LET sh == world.shells[execLog[n].shell] IN
           ~sh.killed /\ sh.pos < Len(Program(sh.cmd))

\* the step is the registry access of a KillBash on handle h
KillStepOn(h) ==
    /\ caller.pc = "kb_delete"
    /\ HandleOf(Get(caller.call.input, "shell_id")) = h

\* the last launch among the calls returned so far that registered h
LastLaunch(h) ==
    LET L == {n \in 1..Len(execLog) :
                 Registers(execLog[n].call, h) /\ ~execLog[n].result.is_error}
    IN  IF L = {} THEN 0 ELSE CHOOSE n \in L : \A m \in L : m <= n

\* C31: a registry entry is removed only by an explicit KillBash on its
\* handle.  A handle leaves the registry only in the registry access of a
\* KillBash that names it; the registry changes in no step but that one and
\* the insert of a background launch, so a step of the process (its natural
\* exit included), of the reader task (its end included) or of BashOutput
\* leaves it as it was; and the lookup of a BashOutput on a handle that a
\* launch registered and no KillBash has named since finds the handle.
C31_OnlyKillUnregisters ==
    [][/\ \A h \in DOMAIN world.bgShells :
              h \notin DOMAIN world.bgShells' => KillStepOn(h)
       /\ world.bgShells' # world.bgShells => caller.pc \in {"kb_delete", "bg_insert"}
       /\ \A h \in {"t1"} :
              (/\ caller.pc = "bo_lookup" /\ caller'.pc = "bo_reg_unlock"
               /\ HandleOf(Get(caller.call.input, "bash_id")) = h
               /\ LastLaunch(h) # 0
               /\ ~KilledSince(h, LastLaunch(h), Len(execLog)))
              => (caller'.exists /\ caller'.shell = world.bgShells[h])
      ]_vars

\* the process has run to its end by itself, the reader task has ended, two
\* BashOutput calls have returned, the second after all output was
\* delivered, and the handle is still in the registry
C31_Witness ==
    /\ caller.pc = "idle"
    /\ Len(execLog) = 3
    /\ IsDrain(execLog[2]) /\ IsDrain(execLog[3])
    /\ ~execLog[3].result.is_error
    /\ LET sh == world.shells[1] IN
       /\ ~sh.killed
       /\ sh.pos = Len(Program(sh.cmd))
       /\ sh.rpc = "done"
       /\ execLog[3].seen = sh.appended
    /\ "t1" \in DOMAIN world.bgShells

\* a KillBash that found shell i in the registry is under way
KillingShell(i) ==
    /\ caller.pc \in {"kb_reg_unlock", "kb_kill"}
    /\ caller.exists
    /\ caller.shell = i

\* C37: every background process started by a backgrounded Bash call and
\* not killed through KillBash stays reachable in the registry under its
\* handle id: for every launch that has returned, the shell it started is
\* the one the registry holds under the id of the call, unless a KillBash
\* has taken it out, and this also when a later launch carried the same id.
C37_StartedStaysReachable ==
    \A n \in 1..Len(execLog) :
        LET e == execLog[n] IN
        (/\ Registers(e.call, e.call.id)
         /\ ~e.result.is_error
         /\ ~world.shells[e.shell].killed
         /\ ~KillingShell(e.shell))
        => /\ e.call.id \in DOMAIN world.bgShells
           /\ world.bgShells[e.call.id] = e.shell

(***************************************************************************)
(* SpecRace: callers of the executor side by side.  The executor guards    *)
(* its registry with bgMu and every shell's buffer with the shell's mu, so *)
(* that Execute may be called from several tasks at once.  Here one shell  *)
(* has been launched under handle t1; one task issues up to MaxRaceCalls   *)
(* calls of the shell tools on that handle and a second task at most one,  *)
(* each one shared access at a time, while the processes and the reader    *)
(* tasks run on their own.                                                 *)
(***************************************************************************)
MaxRaceCalls == 1

TaskIds == {"c1", "c2"}

TaskStart(script) == [todo |-> script] @@ Idle

\* the parameter a shell tool requires
RequiredKey(name) ==
    IF name = "Bash" THEN "command" ELSE IF name = "BashOutput" THEN "bash_id" ELSE "shell_id"

Returns(t, res, shell, drained, seen) ==
    /\ execLog' = Append(execLog,
           [task |-> t] @@ Log(tasks[t].call, res, shell, drained, seen))
    /\ tasks' = [tasks EXCEPT ![t] = TaskStart(tasks[t].todo)]

\* the call is entered: a missing parameter returns at once, and a
\* backgrounded Bash starts its process (cmd.Start())
T_Call(t) ==
    LET me == tasks[t]
        call == Head(me.todo)
        arg == AsString(Get(call.input, RequiredKey(call.name)))
        entered == [me EXCEPT !.call = call, !.todo = Tail(me.todo), !.pc = "reg_lock"]
    IN  /\ me.pc = "idle"
        /\ me.todo # <<>>
        /\ call.name = "Bash" => AsBool(Get(call.input, "run_in_background"))
        /\ IF arg = <<>>
           THEN /\ execLog' = Append(execLog,
                       [task |-> t] @@ Log(call, ToolResult(call.id, "Missing required parameter",
                                               <<RequiredKey(call.name)>>, TRUE, TRUE), 0, <<>>, 0))
                /\ tasks' = [tasks EXCEPT ![t] = TaskStart(Tail(me.todo))]
                /\ UNCHANGED world
           ELSE IF call.name = "Bash"
           THEN /\ world' = [world EXCEPT !.shells = Append(world.shells, NewShell(arg))]
                /\ tasks' = [tasks EXCEPT ![t] = [entered EXCEPT !.shell = Len(world.shells) + 1]]
                /\ UNCHANGED execLog
           ELSE /\ tasks' = [tasks EXCEPT ![t] = entered]
                /\ UNCHANGED <<world, execLog>>
        /\ UNCHANGED <<sseVars, loopVars, pending, bgMu, caller>>

\* e.bgMu.Lock()
T_RegLock(t) ==
    /\ tasks[t].pc = "reg_lock"
    /\ CanLock(bgMu)
    /\ bgMu' = t
    /\ tasks' = [tasks EXCEPT ![t].pc = "reg_access"]
    /\ UNCHANGED <<sseVars, loopVars, world, execLog, pending, caller>>

\* e.bgShells[bashID] = shell
T_Insert(t) ==
    /\ tasks[t].pc = "reg_access"
    /\ tasks[t].call.name = "Bash"
    /\ world' = [world EXCEPT
           !.bgShells = (tasks[t].call.id :> tasks[t].shell) @@ world.bgShells]
    /\ tasks' = [tasks EXCEPT ![t].pc = "reg_unlock"]
    /\ UNCHANGED <<sseVars, loopVars, execLog, pending, bgMu, caller>>

\* shell, exists := e.bgShells[bashID]
T_Lookup(t) ==
    LET id == NamedHandle(tasks[t].call) IN
    /\ tasks[t].pc = "reg_access"
    /\ tasks[t].call.name = "BashOutput"
    /\ tasks' = [tasks EXCEPT
           ![t].pc = "reg_unlock",
           ![t].exists = id \in DOMAIN world.bgShells,
           ![t].shell = IF id \in DOMAIN world.bgShells THEN world.bgShells[id] ELSE 0]
    /\ UNCHANGED <<sseVars, loopVars, world, execLog, pending, bgMu, caller>>

\* a KillBash that looks the handle up and leaves it in the registry
T_Delete_LooksUpOnly(t) ==
    LET id == NamedHandle(tasks[t].call) IN
    /\ tasks[t].pc = "reg_access"
    /\ tasks[t].call.name = "KillBash"
    /\ tasks' = [tasks EXCEPT
           ![t].pc = "reg_unlock",
           ![t].exists = id \in DOMAIN world.bgShells,
           ![t].shell = IF id \in DOMAIN world.bgShells THEN world.bgShells[id] ELSE 0]
    /\ UNCHANGED <<sseVars, loopVars, world, execLog, pending, bgMu, caller>>

\* shell, exists := e.bgShells[shellID]; if exists { delete(...) }
T_Delete(t) ==
    LET id == NamedHandle(tasks[t].call) IN
    /\ tasks[t].pc = "reg_access"
    /\ tasks[t].call.name = "KillBash"
    /\ tasks' = [tasks EXCEPT
           ![t].pc = "reg_unlock",
           ![t].exists = id \in DOMAIN world.bgShells,
           ![t].shell = IF id \in DOMAIN world.bgShells THEN world.bgShells[id] ELSE 0]
    /\ world' = [world EXCEPT
           !.bgShells = [h \in (DOMAIN world.bgShells) \ {id} |-> world.bgShells[h]]]
    /\ UNCHANGED <<sseVars, loopVars, execLog, pending, bgMu, caller>>

\* an unlock placed after the check of exists: the call that finds no shell
\* returns with the registry still locked
T_RegUnlock_AfterCheck(t) ==
    LET me == tasks[t] IN
    /\ me.pc = "reg_unlock"
    /\ IF me.call.name = "Bash"
       THEN /\ tasks' = [tasks EXCEPT ![t].pc = "spawn"]
            /\ bgMu' = ""
            /\ UNCHANGED execLog
       ELSE IF me.exists
       THEN /\ tasks' = [tasks EXCEPT
                   ![t].pc = IF me.call.name = "BashOutput" THEN "sh_lock" ELSE "kill"]
            /\ bgMu' = ""
            /\ UNCHANGED execLog
       ELSE /\ Returns(t, ToolResult(me.call.id, "No background shell",
                                     <<NamedHandle(me.call)>>, TRUE, TRUE), 0, <<>>, 0)
            /\ UNCHANGED bgMu
    /\ UNCHANGED <<sseVars, loopVars, world, pending, caller>>

\* e.bgMu.Unlock(), and the return of a call that found no shell
T_RegUnlock(t) ==
    LET me == tasks[t] IN
    /\ me.pc = "reg_unlock"
    /\ bgMu' = ""
    /\ IF me.call.name = "Bash"
       THEN /\ tasks' = [tasks EXCEPT ![t].pc = "spawn"]
            /\ UNCHANGED execLog
       ELSE IF me.exists
       THEN /\ tasks' = [tasks EXCEPT
                   ![t].pc = IF me.call.name = "BashOutput" THEN "sh_lock" ELSE "kill"]
            /\ UNCHANGED execLog
       ELSE Returns(t, ToolResult(me.call.id, "No background shell",
                                  <<NamedHandle(me.call)>>, TRUE, TRUE), 0, <<>>, 0)
    /\ UNCHANGED <<sseVars, loopVars, world, pending, caller>>

\* go func() {...}() and the return of the launch
T_Spawn(t) ==
    /\ tasks[t].pc = "spawn"
    /\ world' = [world EXCEPT !.shells[tasks[t].shell].rpc = "read"]
    /\ Returns(t, ToolResult(tasks[t].call.id, "Background process started",
                             <<tasks[t].call.id>>, FALSE, FALSE), tasks[t].shell, <<>>, 0)
    /\ UNCHANGED <<sseVars, loopVars, pending, bgMu, caller>>

\* a BashOutput that reads the buffer without taking the shell's lock
T_ShLock_Skipped(t) ==
    /\ tasks[t].pc = "sh_lock"
    /\ tasks' = [tasks EXCEPT ![t].pc = "string"]
    /\ UNCHANGED <<sseVars, loopVars, world, execLog, pending, bgMu, caller>>

\* shell.mu.Lock()
T_ShLock(t) ==
    /\ tasks[t].pc = "sh_lock"
    /\ CanLock(world.shells[tasks[t].shell].mu)
    /\ world' = [world EXCEPT !.shells[tasks[t].shell].mu = t]
    /\ tasks' = [tasks EXCEPT ![t].pc = "string"]
    /\ UNCHANGED <<sseVars, loopVars, execLog, pending, bgMu, caller>>

\* output := shell.output.String()
T_String(t) ==
    /\ tasks[t].pc = "string"
    /\ tasks' = [tasks EXCEPT ![t].pc = "reset",
                              ![t].output = world.shells[tasks[t].shell].output,
                              ![t].seen = world.shells[tasks[t].shell].appended]
    /\ UNCHANGED <<sseVars, loopVars, world, execLog, pending, bgMu, caller>>

\* shell.output.Reset()
T_Reset(t) ==
    /\ tasks[t].pc = "reset"
    /\ world' = [world EXCEPT !.shells[tasks[t].shell].output = <<>>]
    /\ tasks' = [tasks EXCEPT ![t].pc = "sh_unlock"]
    /\ UNCHANGED <<sseVars, loopVars, execLog, pending, bgMu, caller>>

\* shell.mu.Unlock() and the return of BashOutput
T_ShUnlock(t) ==
    LET me == tasks[t] IN
    /\ me.pc = "sh_unlock"
    /\ world' = [world EXCEPT !.shells[me.shell].mu = ""]
    /\ Returns(t, ToolResult(me.call.id, "Output",
                             IF me.output = <<>> THEN <<"(no new output)">> ELSE me.output,
                             FALSE, FALSE),
               me.shell, me.output, me.seen)
    /\ UNCHANGED <<sseVars, loopVars, pending, bgMu, caller>>

\* shell.cmd.Process.Kill() and the return of KillBash
T_Kill(t) ==
    LET me == tasks[t] IN
    /\ me.pc = "kill"
    /\ world' = [world EXCEPT !.shells[me.shell].killed = TRUE]
    /\ Returns(t, ToolResult(me.call.id, "Shell terminated",
                             <<NamedHandle(me.call)>>, FALSE, FALSE), me.shell, <<>>, 0)
    /\ UNCHANGED <<sseVars, loopVars, pending, bgMu, caller>>

\* the calls a task issues: the shell tools on handle t1, and a launch of a
\* silent command under the id t1 again
RaceCalls ==
    {ToolCall("t2", "BashOutput", [bash_id |-> Str(<<"t1">>)]),
     ToolCall("t3", "KillBash", [shell_id |-> Str(<<"t1">>)]),
     BgCall("t1", CmdFalse)}

\* the executor after the launch of the first shell has returned
Launched ==
    LET w == World(FileOf(<<"a">>), FALSE)
        after == executeBashBackground(BgCall("t1", CmdEcho), CmdEcho, w)
    IN  [world |-> [after.world EXCEPT !.shells[1].rpc = "read"],
         entry |-> [task |-> "main"] @@ Log(BgCall("t1", CmdEcho), after.result, 1, <<>>, 0)]

InitRace ==
    /\ world = Launched.world
    /\ execLog = <<Launched.entry>>
    /\ pending = <<>>
    /\ bgMu = ""
    /\ caller = Idle
    /\ \E s1 \in UNION {SeqsOfLen(RaceCalls, n) : n \in 0..MaxRaceCalls} :
       \E s2 \in {<<>>} \cup SeqsOfLen(RaceCalls, 1) :
          tasks = [t \in TaskIds |-> TaskStart(IF t = "c1" THEN s1 ELSE s2)]
    /\ SseIdle
    /\ LoopIdle

T_Calls == \E t \in TaskIds : T_Call(t)
T_RegLocks == \E t \in TaskIds : T_RegLock(t)
T_Inserts == \E t \in TaskIds : T_Insert(t)
T_Lookups == \E t \in TaskIds : T_Lookup(t)
T_Deletes == \E t \in TaskIds : T_Delete(t)
T_RegUnlocks == \E t \in TaskIds : T_RegUnlock(t)
T_Spawns == \E t \in TaskIds : T_Spawn(t)
T_ShLocks == \E t \in TaskIds : T_ShLock(t)
T_Strings == \E t \in TaskIds : T_String(t)
T_Resets == \E t \in TaskIds : T_Reset(t)
T_ShUnlocks == \E t \in TaskIds : T_ShUnlock(t)
T_Kills == \E t \in TaskIds : T_Kill(t)

TaskSteps ==
    \/ T_Calls \/ T_RegLocks \/ T_Inserts \/ T_Lookups \/ T_Deletes \/ T_RegUnlocks
    \/ T_Spawns \/ T_ShLocks \/ T_Strings \/ T_Resets \/ T_ShUnlocks \/ T_Kills

NextRace ==
    \/ TaskSteps
    \/ R_Reads \/ R_Locks \/ R_Writes \/ R_Unlocks
    \/ Process

SpecRace == InitRace /\ [][NextRace]_vars

(***************************************************************************)
(* Properties of the callers side by side.                                 *)
(***************************************************************************)
\* the tasks standing between Lock and Unlock of the registry lock, and the
\* tasks (callers and the reader) between Lock and Unlock of shell i's lock
InRegistry == {t \in TaskIds : tasks[t].pc \in {"reg_access", "reg_unlock"}}
InBuffer(i) ==
    {t \in TaskIds : tasks[t].pc \in {"string", "reset", "sh_unlock"} /\ tasks[t].shell = i}
    \cup (IF world.shells[i].rpc \in {"write", "unlock"} THEN {"reader"} ELSE {})

\* C32: lock discipline.  A task that reads, inserts into or deletes from
\* the registry holds bgMu, and a task that appends to, reads or resets a
\* shell's buffer holds that shell's mu; so at no time are two tasks at the
\* registry, or two tasks (callers or the reader) at the buffer of one
\* shell, and the registry and the buffers change only in a step of the
\* task that holds the lock.
C32_LockDiscipline ==
    [][/\ \A t \in InRegistry : bgMu = t
       /\ Cardinality(InRegistry) <= 1
       /\ \A i \in 1..Len(world.shells) :
             /\ \A t \in InBuffer(i) : world.shells[i].mu = t
             /\ Cardinality(InBuffer(i)) <= 1
             /\ world.shells'[i].output # world.shells[i].output =>
                   \/ /\ world.shells[i].mu = "reader"
                      /\ world.shells[i].rpc = "write" /\ world.shells'[i].rpc = "unlock"
                   \/ \E t \in TaskIds :
                         /\ world.shells[i].mu = t
                         /\ tasks[t].pc = "reset" /\ tasks'[t].pc = "sh_unlock"
       /\ world.bgShells' # world.bgShells =>
             \E t \in TaskIds :
                 bgMu = t /\ tasks[t].pc = "reg_access" /\ tasks'[t].pc = "reg_unlock"
      ]_vars

\* a BashOutput waits for the buffer lock that the reader holds for its
\* append, while a KillBash of the same handle has deleted it and still
\* holds the registry lock
C32_Witness ==
    /\ tasks["c1"].pc = "sh_lock"
    /\ world.shells[tasks["c1"].shell].mu = "reader"
    /\ world.shells[tasks["c1"].shell].rpc = "write"
    /\ tasks["c2"].pc = "reg_unlock"
    /\ tasks["c2"].call.name = "KillBash"
    /\ tasks["c2"].exists
    /\ bgMu = "c2"

\* the steps of task t, and the steps of a reader between Lock and Unlock
TaskStep(t) ==
    \/ T_Call(t) \/ T_RegLock(t) \/ T_Insert(t) \/ T_Lookup(t) \/ T_Delete(t)
    \/ T_RegUnlock(t) \/ T_Spawn(t) \/ T_ShLock(t) \/ T_String(t) \/ T_Reset(t)
    \/ T_ShUnlock(t) \/ T_Kill(t)
ReaderSection == R_Writes \/ R_Unlocks

\* Every task that can take a step is given one in the end, and so is a
\* reader between Lock and Unlock (the Go scheduler runs every runnable
\* goroutine); nothing is required of a process, nor of a reader waiting
\* for output.
FairRace ==
    /\ SpecRace
    /\ \A t \in TaskIds : WF_vars(TaskStep(t))
    /\ WF_vars(ReaderSection)

\* the locks task t holds
HoldsRegistry(t) == bgMu = t
HeldShells(t) == {i \in 1..Len(world.shells) : world.shells[i].mu = t}

\* C35: the background-shell code is free of deadlock.  No task holds the
\* registry lock and a shell lock at the same time, nor two shell locks; a
\* lock is held only by a task standing between its Lock and its Unlock, and
\* such a task can always take its next step, for it waits neither for
\* another lock nor for the process; and every call a task has entered
\* returns, whatever the readers and the processes do.
C35_DeadlockFree ==
    /\ [](/\ \A t \in TaskIds :
                /\ ~(HoldsRegistry(t) /\ HeldShells(t) # {})
                /\ Cardinality(HeldShells(t)) <= 1
                /\ HoldsRegistry(t) => t \in InRegistry
                /\ \A i \in HeldShells(t) : t \in InBuffer(i)
                /\ (t \in InRegistry \/ \E i \in 1..Len(world.shells) : t \in InBuffer(i))
                      => ENABLED TaskStep(t)
          /\ \A i \in 1..Len(world.shells) :
                world.shells[i].mu = "reader" =>
                    /\ "reader" \in InBuffer(i)
                    /\ ENABLED (R_Write(i) \/ R_Unlock(i)))
    /\ \A t \in TaskIds : (tasks[t].pc # "idle") ~> (tasks[t].pc = "idle")

\* one task holds the lock of a shell for its BashOutput, the other holds
\* the registry lock, and the reader of the shell waits for the shell's lock
C35_Witness ==
    /\ tasks["c1"].pc = "string"
    /\ world.shells[tasks["c1"].shell].mu = "c1"
    /\ world.shells[tasks["c1"].shell].rpc = "lock"
    /\ tasks["c2"].pc = "reg_access"
    /\ bgMu = "c2"

\* KillBash calls that found shell i in the registry: those that have
\* returned, and the tasks that are past the registry access of such a call
KillsReturned(i) ==
    {n \in 1..Len(execLog) :
        /\ execLog[n].call.name = "KillBash"
        /\ ~execLog[n].result.is_error
        /\ execLog[n].shell = i}
KillsUnderWay(i) ==
    {t \in TaskIds :
        /\ tasks[t].pc \in {"reg_unlock", "kill"}
        /\ tasks[t].call.name = "KillBash"
        /\ tasks[t].exists
        /\ tasks[t].shell = i}
\* some KillBash call found no shell
KillMissed ==
    \/ \E n \in 1..Len(execLog) :
           execLog[n].call.name = "KillBash" /\ execLog[n].result.is_error
    \/ \E t \in TaskIds : /\ tasks[t].pc = "reg_unlock"
                          /\ tasks[t].call.name = "KillBash"
                          /\ ~tasks[t].exists

\* C36: of the KillBash calls on one registered handle that run side by
\* side, exactly one succeeds.  For every shell at most one KillBash finds
\* it in the registry, so that its process is killed at most once through
\* the registry; a KillBash that has returned without error has killed the
\* shell it found; and as long as only one shell was ever launched under
\* the handle, once any KillBash has made its registry access exactly one
\* has found the shell and every other one returns is_error.
C36_OneKillWins ==
    /\ \A i \in 1..Len(world.shells) :
          /\ Cardinality(KillsReturned(i)) + Cardinality(KillsUnderWay(i)) <= 1
          /\ KillsReturned(i) # {} => world.shells[i].killed
    /\ (Len(world.shells) = 1 /\ (KillMissed \/ KillsReturned(1) # {}
                                    \/ KillsUnderWay(1) # {}))
          => Cardinality(KillsReturned(1)) + Cardinality(KillsUnderWay(1)) = 1

\* two KillBash calls of handle t1 overlap: one has taken the shell out of
\* the registry and has not yet killed it, the other has looked the handle
\* up meanwhile and found nothing
C36_Witness ==
    /\ Len(world.shells) = 1
    /\ tasks["c1"].call.name = "KillBash" /\ tasks["c2"].call.name = "KillBash"
    /\ tasks["c1"].pc = "kill"
    /\ tasks["c2"].pc = "reg_unlock" /\ ~tasks["c2"].exists
    /\ ~world.shells[1].killed

(***************************************************************************)
(* The stream parser (package client, parseSSEStream) and the decoding of  *)
(* a tool_use block's input by the conversation loop.                      *)
(***************************************************************************)

MaxData == 3        \* data lines of one stream
MaxIndex == 1       \* largest content block index on the wire

\* JSON text is a sequence of tokens: the two braces and the members of an
\* object; a fragment of JSON text is any piece of such a sequence
LBrace == [t |-> "{", k |-> "", v |-> Absent]
RBrace == [t |-> "}", k |-> "", v |-> Absent]
Member(k, v) == [t |-> "member", k |-> k, v |-> v]

\* json.Unmarshal(text, &input) with input a map[string]interface{}: the
\* text must be one object; a repeated key keeps its last value
Unmarshal(text) ==
    LET n == Len(text)
        ok == /\ n >= 2
              /\ text[1] = LBrace
              /\ text[n] = RBrace
              /\ \A j \in 2..(n - 1) : text[j].t = "member"
        keys == {text[j].k : j \in 2..(n - 1)}
        last(k) == CHOOSE j \in 2..(n - 1) :
                       /\ text[j].k = k
                       /\ \A h \in (j + 1)..(n - 1) : text[h].k # k
    IN  IF ok THEN [err |-> FALSE, value |-> [k \in keys |-> text[last(k)].v]]
        ELSE [err |-> TRUE, value |-> NoInput]

\* a plausible bug: of text that does not decode, the members read up to the
\* error are kept
DecodeInput_KeepsPartial(raw) ==
    LET r == Unmarshal(raw)
        members == SelectSeq(raw, LAMBDA t : t.t = "member")
    IN  IF r.err THEN Unmarshal(<<LBrace>> \o members \o <<RBrace>>).value ELSE r.value

\* runLoop: the input handed to the executor is the decoded block input, or
\* an empty map when it does not decode
DecodeInput(raw) ==
    LET r == Unmarshal(raw) IN IF r.err THEN NoInput ELSE r.value

ContentBlock(type, id, name, text, input) ==
    [type |-> type, id |-> id, name |-> name, text |-> text, input |-> input]
ZeroBlock == ContentBlock("", "", "", <<>>, <<>>)

\* a decoded data line: ok is FALSE when the line is not JSON; a field the
\* line does not carry decodes to its zero value
ZeroData ==
    [ok |-> TRUE, index |-> 0, content_block |-> ZeroBlock,
     delta |-> [type |-> "", text |-> <<>>, partial_json |-> <<>>, stop_reason |-> ""],
     usage |-> [present |-> FALSE, input_tokens |-> 0, output_tokens |-> 0],
     message |-> EmptyResponse, error |-> ""]

BadData == [ZeroData EXCEPT !.ok = FALSE]
MessageStartData ==
    [ZeroData EXCEPT !.message =
        [EmptyResponse EXCEPT !.id = "msg", !.role = "assistant", !.model = "m",
                              !.usage = [input_tokens |-> 3, output_tokens |-> 0]]]
BlockIds == [i \in 0..(MaxIndex + 1) |-> <<"tu0", "tu1", "tu2">>[i + 1]]
TextBlockStart(i) ==
    [ZeroData EXCEPT !.index = i, !.content_block = ContentBlock("text", "", "", <<>>, <<>>)]
ToolBlockStart(i) ==
    [ZeroData EXCEPT !.index = i,
        !.content_block = ContentBlock("tool_use", BlockIds[i], "Bash", <<>>, <<LBrace, RBrace>>)]
TextDelta(i, text) ==
    [ZeroData EXCEPT !.index = i, !.delta.type = "text_delta", !.delta.text = text]
InputJsonDelta(i, frag) ==
    [ZeroData EXCEPT !.index = i, !.delta.type = "input_json_delta", !.delta.partial_json = frag]
BlockStop(i) == [ZeroData EXCEPT !.index = i]
MessageDeltaData(reason, u) ==
    [ZeroData EXCEPT !.delta.stop_reason = reason,
        !.usage = [present |-> u, input_tokens |-> 0, output_tokens |-> IF u THEN 5 ELSE 0]]
ErrorData == [ZeroData EXCEPT !.error = "overloaded"]

Fragments == {<<LBrace, Member("command", Str(CmdEcho))>>, <<RBrace>>}
Indexes == 0..MaxIndex

Data ==
    {BadData, MessageStartData, ErrorData}
    \cup {TextBlockStart(i) : i \in Indexes}
    \cup {ToolBlockStart(i) : i \in Indexes}
    \cup {TextDelta(i, <<"h">>) : i \in Indexes}
    \cup {InputJsonDelta(i, f) : i \in Indexes, f \in Fragments}
    \cup {BlockStop(i) : i \in Indexes}
    \cup {MessageDeltaData("", FALSE), MessageDeltaData("end_turn", TRUE)}

Events ==
    {"message_start", "content_block_start", "content_block_delta",
     "content_block_stop", "message_delta", "message_stop", "error"}

\* maps as Go keeps them
Put(m, k, v) == [x \in DOMAIN m \cup {k} |-> IF x = k THEN v ELSE m[x]]
Drop(m, k) == [x \in DOMAIN m \ {k} |-> m[x]]

\* for len(result.Content) <= block.Index { append(ContentBlock{}) }
RECURSIVE Grow(_, _)
Grow(content, index) ==
    IF Len(content) <= index THEN Grow(Append(content, ZeroBlock), index) ELSE content

\* a plausible bug: the block is appended in arrival order
StoreBlock_Append(content, index, block) == Append(content, block)

\* result.Content[block.Index] = block.ContentBlock, after growing
StoreBlock(content, index, block) ==
    [Grow(content, index) EXCEPT ![index + 1] = block]

Reading == parser.status = "reading"
MoreData == wire.nData < MaxData
\* the stream as read so far: one more data line, whose JSON decoded or not
Counted(p) == [wire EXCEPT !.nData = @ + 1, !.lastOk = p.ok]

\* a line "event: <kind>"
EventLine(ev) ==
    /\ Reading
    /\ parser' = [parser EXCEPT !.currentEvent = ev]
    /\ UNCHANGED <<sink, wire, received, execVars, loopVars>>

\* a line that is neither an event line nor a data line
OtherLine ==
    /\ Reading
    /\ UNCHANGED vars

\* a plausible bug: the error of json.Unmarshal is not looked at
Decodes_Always(p) == TRUE

\* json.Unmarshal([]byte(data), &v) returns nil
Decodes(p) == p.ok

\* one callback of the sink has been called
Notified(s) == [s EXCEPT !.calls = @ + 1]

\* a plausible bug: message_stop is handled by the case of message_delta
Case_StopAsDelta(ev) ==
    IF ev \in {"message_start", "content_block_start", "content_block_delta",
               "content_block_stop", "message_delta", "error"}
    THEN ev
    ELSE IF ev = "message_stop" THEN "message_delta" ELSE "none"

\* switch currentEvent: the case that runs for an event kind; the switch has
\* no default
Case(ev) ==
    IF ev \in {"message_start", "content_block_start", "content_block_delta",
               "content_block_stop", "message_delta", "error"}
    THEN ev
    ELSE "none"

\* a data line while the current event has no case, or whose JSON does not
\* decode: nothing happens
SkippedData(p) ==
    /\ Reading /\ MoreData
    /\ \/ Case(parser.currentEvent) = "none"
       \/ ~Decodes(p)
    /\ wire' = Counted(p)
    /\ UNCHANGED <<parser, sink, received, execVars, loopVars>>

MessageStart(p) ==
    /\ Reading /\ MoreData
    /\ Case(parser.currentEvent) = "message_start" /\ Decodes(p)
    /\ parser' = [parser EXCEPT !.result = p.message]
    /\ sink' = Notified(sink)
    /\ wire' = [Counted(p) EXCEPT !.wellFormed = @ /\ wire.starts = <<>>]
    /\ UNCHANGED <<received, execVars, loopVars>>

ContentBlockStart(p) ==
    /\ Reading /\ MoreData
    /\ Case(parser.currentEvent) = "content_block_start" /\ Decodes(p)
    /\ LET block == p.content_block
       IN  /\ parser' = [parser EXCEPT
                  !.result.content = StoreBlock(@, p.index, block),
                  !.toolInputs = IF block.type = "tool_use"
                                 THEN Put(@, p.index, <<>>) ELSE @]
           /\ wire' = [Counted(p) EXCEPT
                  !.starts = Append(@, [index |-> p.index, block |-> block]),
                  !.wellFormed =
                      /\ @
                      /\ block.type \in {"text", "tool_use"}
                      /\ \A j \in 1..Len(wire.starts) : wire.starts[j].index # p.index]
           /\ sink' = IF block.type = "tool_use" THEN Notified(sink) ELSE sink
    /\ UNCHANGED <<received, execVars, loopVars>>

\* a plausible bug: the fragment is also written to the block
OnInputJsonDelta_WritesBlock(ps, index, frag) ==
    IF index \in DOMAIN ps.toolInputs
    THEN [ps EXCEPT !.toolInputs[index] = @ \o frag,
                    !.result.content =
                        IF index < Len(@)
                        THEN [@ EXCEPT ![index + 1].input = ps.toolInputs[index] \o frag]
                        ELSE @]
    ELSE ps

\* if sb, ok := toolInputs[delta.Index]; ok { sb.WriteString(PartialJSON) }
OnInputJsonDelta(ps, index, frag) ==
    IF index \in DOMAIN ps.toolInputs
    THEN [ps EXCEPT !.toolInputs[index] = @ \o frag]
    ELSE ps

ContentBlockDelta(p) ==
    /\ Reading /\ MoreData
    /\ Case(parser.currentEvent) = "content_block_delta" /\ Decodes(p)
    /\ CASE p.delta.type = "text_delta" ->
              /\ parser' = IF p.index < Len(parser.result.content)
                           THEN [parser EXCEPT
                                    !.result.content[p.index + 1].text = @ \o p.delta.text]
                           ELSE parser
              /\ sink' = [Notified(sink) EXCEPT !.text = @ \o p.delta.text]
              /\ wire' = Counted(p)
         [] p.delta.type = "input_json_delta" ->
              /\ parser' = OnInputJsonDelta(parser, p.index, p.delta.partial_json)
              /\ sink' = Notified(sink)
              /\ wire' = [Counted(p) EXCEPT !.carried =
                             Put(@, p.index,
                                 (IF p.index \in DOMAIN @ THEN @[p.index] ELSE <<>>)
                                     \o p.delta.partial_json)]
         [] OTHER ->
              /\ wire' = Counted(p)
              /\ UNCHANGED <<parser, sink>>
    /\ UNCHANGED <<received, execVars, loopVars>>

\* a plausible bug: the buffer is left in the map after it was stored
OnContentBlockStop_KeepsBuffer(ps, index) ==
    IF index \in DOMAIN ps.toolInputs
    THEN [ps EXCEPT
             !.result.content =
                 IF index < Len(@)
                 THEN [@ EXCEPT ![index + 1].input = ps.toolInputs[index]]
                 ELSE @]
    ELSE ps

\* if sb, ok := toolInputs[stop.Index]; ok { store it in the block if the
\* block is there; delete(toolInputs, stop.Index) }
OnContentBlockStop(ps, index) ==
    IF index \in DOMAIN ps.toolInputs
    THEN [ps EXCEPT
             !.result.content =
                 IF index < Len(@)
                 THEN [@ EXCEPT ![index + 1].input = ps.toolInputs[index]]
                 ELSE @,
             !.toolInputs = Drop(@, index)]
    ELSE ps

ContentBlockStop(p) ==
    /\ Reading /\ MoreData
    /\ Case(parser.currentEvent) = "content_block_stop" /\ Decodes(p)
    /\ parser' = OnContentBlockStop(parser, p.index)
    /\ sink' = Notified(sink)
    /\ wire' = Counted(p)
    /\ UNCHANGED <<received, execVars, loopVars>>

MessageDelta(p) ==
    /\ Reading /\ MoreData
    /\ Case(parser.currentEvent) = "message_delta" /\ Decodes(p)
    /\ parser' = [parser EXCEPT
           !.result.stop_reason = p.delta.stop_reason,
           !.result.usage = IF p.usage.present
                            THEN [input_tokens |-> p.usage.input_tokens,
                                  output_tokens |-> p.usage.output_tokens]
                            ELSE @]
    /\ sink' = Notified(sink)
    /\ wire' = Counted(p)
    /\ UNCHANGED <<received, execVars, loopVars>>

\* return nil, err: the caller gets no response
\* a plausible bug: the error is reported and the parse goes on
Failed_GoesOn(err) == [parser EXCEPT !.err = err]

Failed(err) == [ParserStart EXCEPT !.status = "failed", !.err = err]

\* an error event ends the parse: OnError, then return nil, apiErr
ErrorEvent(p) ==
    /\ Reading /\ MoreData
    /\ Case(parser.currentEvent) = "error" /\ Decodes(p)
    /\ parser' = Failed("stream error")
    /\ sink' = [Notified(sink) EXCEPT !.errors = @ + 1]
    /\ wire' = Counted(p)
    /\ UNCHANGED <<received, execVars, loopVars>>

\* scanner.Scan() returns false at the end of the body: return &result, nil;
\* runLoop then walks resp.Content and decodes the input of each tool_use
\* block for the executor
StreamEnd ==
    /\ Reading
    /\ parser' = [parser EXCEPT !.status = "returned"]
    /\ received' =
           [q \in 1..Len(parser.result.content) |->
               LET block == parser.result.content[q] IN
               IF block.type = "tool_use"
               THEN ToolCall(block.id, block.name, DecodeInput(block.input))
               ELSE ToolCall("", "", NoInput)]
    /\ UNCHANGED <<sink, wire, execVars, loopVars>>

\* scanner.Scan() returns false on a read error: return nil, "read stream"
ReadError ==
    /\ Reading
    /\ parser' = Failed("read stream")
    /\ UNCHANGED <<sink, wire, received, execVars, loopVars>>

InitSSE ==
    /\ world = World(NoFile, FALSE)
    /\ execLog = <<>>
    /\ pending = <<>>
    /\ bgMu = ""
    /\ caller = Idle
    /\ tasks = NoTasks
    /\ SseIdle
    /\ LoopIdle

EventLines == \E ev \in Events : EventLine(ev)
SkippedDatas == \E p \in Data : SkippedData(p)
MessageStarts == \E p \in Data : MessageStart(p)
ContentBlockStarts == \E p \in Data : ContentBlockStart(p)
ContentBlockDeltas == \E p \in Data : ContentBlockDelta(p)
ContentBlockStops == \E p \in Data : ContentBlockStop(p)
MessageDeltas == \E p \in Data : MessageDelta(p)
ErrorEvents == \E p \in Data : ErrorEvent(p)

NextSSE ==
    \/ EventLines
    \/ OtherLine
    \/ SkippedDatas
    \/ MessageStarts
    \/ ContentBlockStarts
    \/ ContentBlockDeltas
    \/ ContentBlockStops
    \/ MessageDeltas
    \/ ErrorEvents
    \/ StreamEnd
    \/ ReadError

SpecSSE == InitSSE /\ [][NextSSE]_vars

(***************************************************************************)
(* Properties of the stream parser                                         *)
(***************************************************************************)

\* all input_json_delta fragments the stream carried for an index, joined
\* in arrival order
Carried(i) == IF i \in DOMAIN wire.carried THEN wire.carried[i] ELSE <<>>

\* C8: the input the executor receives for a tool_use block is the parse of
\* the concatenation, in arrival order, of all input_json_delta fragments
\* the stream carried for that block's index
C8_InputIsConcatenation ==
    parser.status = "returned" =>
        \A q \in 1..Len(parser.result.content) :
            parser.result.content[q].type = "tool_use" =>
                received[q].input = DecodeInput(Carried(q - 1))

Populated(content) == {q \in 1..Len(content) : content[q].type # ""}

\* C9: for a well-formed stream with N content_block_start events, whatever
\* the order of their indices, the response holds exactly N populated
\* blocks, and the block started with index i sits at position i
C9_BlocksByIndex ==
    (wire.wellFormed /\ parser.status # "failed") =>
        /\ Cardinality(Populated(parser.result.content)) = Len(wire.starts)
        /\ \A j \in 1..Len(wire.starts) :
              LET st == wire.starts[j] IN
              /\ st.index + 1 \in 1..Len(parser.result.content)
              /\ parser.result.content[st.index + 1].type = st.block.type
              /\ parser.result.content[st.index + 1].id = st.block.id
              /\ parser.result.content[st.index + 1].name = st.block.name

\* two blocks started in decreasing index order, both in place
C9_Witness ==
    /\ wire.wellFormed
    /\ Len(wire.starts) = 2
    /\ wire.starts[1].index > wire.starts[2].index
    /\ parser.status = "returned"

(***************************************************************************)
(* The conversation loop (package conversation: Session.SendMessage,       *)
(* Session.runLoop, Session.Clear, needsConfirmation).  A message of the   *)
(* history is kept as its role and the kind of its content.                *)
(***************************************************************************)

maxToolIterations == 25

MaxSends == 2       \* SendMessage calls of one session
MaxVaried == 1      \* responses of one session off the plain path
MaxTurnEnd == 1     \* a turn that does not run to the ceiling ends (with a
                    \* response without tool_use or a failed request) within
                    \* this many iterations; responses off the plain path
                    \* come within them or in the last iteration

Message(role, kind) == [role |-> role, kind |-> kind]

\* a message in full, as appended to the history
FullMessage(role, content) == [role |-> role, content |-> content]

\* the content blocks of the assistant message: the text and tool_use
\* blocks of the response, in order
AssistantBlock(block) ==
    IF block.type = "text" THEN ContentBlock("text", "", "", block.text, <<>>)
    ELSE ContentBlock("tool_use", block.id, block.name, <<>>, block.input)
AssistantContent(content) ==
    LET kept == SelectSeq(content, LAMBDA b : b.type \in {"text", "tool_use"})
    IN  [q \in 1..Len(kept) |-> AssistantBlock(kept[q])]

\* a plausible bug: shell commands run without a prompt
needsConfirmation_NotBash(toolName, input) ==
    toolName \in {"Write", "Edit", "MultiEdit"}

needsConfirmation(toolName, input) ==
    toolName \in {"Bash", "Write", "Edit", "MultiEdit"}

\* a plausible bug: the loop runs once more than the ceiling
LoopContinues_OffByOne(i) == i <= maxToolIterations

\* for i := 0; i < maxToolIterations; i++
LoopContinues(i) == i < maxToolIterations

\* a plausible bug: the denial is reported as a success
DeniedResult_NotError(block) ==
    [type |-> "tool_result", tool_use_id |-> block.id,
     content |-> [msg |-> "User denied this operation", data |-> <<>>],
     is_error |-> FALSE]

\* the tool_result recorded for a denied block
DeniedResult(block) ==
    [type |-> "tool_result", tool_use_id |-> block.id,
     content |-> [msg |-> "User denied this operation", data |-> <<>>],
     is_error |-> TRUE]

\* a plausible bug: the collected result does not name its block
CollectedResult_NoId(result) ==
    [type |-> "tool_result", tool_use_id |-> "",
     content |-> result.content, is_error |-> result.is_error]

\* the tool_result recorded for an executed block
CollectedResult(result) ==
    [type |-> "tool_result", tool_use_id |-> result.tool_use_id,
     content |-> result.content, is_error |-> result.is_error]

\* responses of the model
TextBlock == ContentBlock("text", "", "", <<"h">>, <<>>)
ToolUse(id, name, members) ==
    ContentBlock("tool_use", id, name, <<>>, <<LBrace>> \o members \o <<RBrace>>)
ReadF(id) == ToolUse(id, "Read", <<Member("file_path", Str(PathF))>>)
WriteF(id) ==
    ToolUse(id, "Write", <<Member("file_path", Str(PathF)), Member("content", Str(<<"a", "b">>))>>)
BashWrite(id, bg) ==
    ToolUse(id, "Bash", <<Member("command", Str(CmdWrite)), Member("run_in_background", Bool(bg))>>)
Undecodable(id) ==
    ContentBlock("tool_use", id, "Bash", <<>>, <<LBrace, Member("command", Str(CmdWrite))>>)
GrepBad(id) == ToolUse(id, "Grep", <<Member("pattern", Str(BadPattern))>>)
Unknown(id) == ToolUse(id, "Task", <<>>)
Thinking == ContentBlock("thinking", "", "", <<>>, <<>>)

GlobF(id) == ToolUse(id, "Glob", <<Member("pattern", Str(PathF))>>)
EditF(id) ==
    ToolUse(id, "Edit", <<Member("file_path", Str(PathF)), Member("old_string", Str(<<"a">>)),
                          Member("new_string", Str(<<"b">>))>>)
MultiEditF(id) == ToolUse(id, "MultiEdit", <<Member("file_path", Str(PathF))>>)
BashOutputOf(id, h) == ToolUse(id, "BashOutput", <<Member("bash_id", Str(<<h>>))>>)
KillBashOf(id, h) == ToolUse(id, "KillBash", <<Member("shell_id", Str(<<h>>))>>)

PlainResponses == {<<TextBlock>>, <<GlobF("t1")>>}
VariedResponses ==
    {<<>>,
     <<TextBlock, WriteF("t1"), ReadF("t2")>>,
     <<BashWrite("t1", TRUE), ReadF("t2")>>,
     <<BashWrite("t1", FALSE), ReadF("t2")>>,
     <<Undecodable("t1"), WriteF("t2")>>,
     <<Thinking, GrepBad("t1"), Unknown("t2")>>,
     <<EditF("t1"), KillBashOf("t2", "t9")>>,
     <<MultiEditF("t1"), BashOutputOf("t2", "t9")>>}

Responses ==
    IF /\ net.varied < MaxVaried
       /\ loop.i < MaxTurnEnd \/ loop.i = maxToolIterations - 1
    THEN PlainResponses \cup VariedResponses ELSE PlainResponses

HasToolUse(content) == \E q \in 1..Len(content) : content[q].type = "tool_use"

\* the block the loop is looking at
Block == loop.resp.content[loop.k]
InBatch == loop.k <= Len(loop.resp.content)

\* Session.SendMessage: append the user's message and enter runLoop
\* a plausible bug: SendMessage is let in while a turn is running
Callable_Always(l) == TRUE

\* SendMessage runs runLoop to its return before the caller can call again
Callable(l) == l.pc = "idle"

\* a SendMessage that starts the history over with the new user message
SendMessage_StartsOver ==
    /\ Callable(loop)
    /\ net.sends < MaxSends
    /\ messages' = <<Message("user", "input")>>
    /\ loop' = [LoopStart EXCEPT !.pc = "request"]
    /\ net' = [net EXCEPT !.sends = @ + 1, !.cycles = 0, !.allToolUse = TRUE,
                          !.failed = FALSE, !.returned = "", !.cause = "",
                          !.appended = <<FullMessage("user", <<>>)>>,
                          !.reported = FALSE]
    /\ UNCHANGED <<execVars, sseVars, config>>

SendMessage ==
    /\ Callable(loop)
    /\ net.sends < MaxSends
    /\ messages' = Append(messages, Message("user", "input"))
    /\ loop' = [LoopStart EXCEPT !.pc = "request"]
    /\ net' = [net EXCEPT !.sends = @ + 1, !.cycles = 0, !.allToolUse = TRUE,
                          !.failed = FALSE, !.returned = "", !.cause = "",
                          !.appended = <<FullMessage("user", <<>>)>>,
                          !.reported = FALSE]
    /\ UNCHANGED <<execVars, sseVars, config>>

\* Session.Clear
Clear ==
    /\ loop.pc = "idle"
    /\ messages # <<>>
    /\ messages' = <<>>
    /\ UNCHANGED <<loop, net, execVars, sseVars, config>>

\* a request whose System is built anew from the working directory
RequestSystem_Rebuilt(n, w) == buildSystemPrompt(w)

\* req.System of the request runLoop builds
RequestSystem(n, w) == n.system

\* one request whose response arrives: SendMessageStream returns resp, nil
SendRequest(content) ==
    /\ loop.pc = "request"
    /\ LoopContinues(loop.i)
    /\ HasToolUse(content) \/ loop.i < MaxTurnEnd
    /\ loop' = [loop EXCEPT !.pc = "block", !.resp = [EmptyResponse EXCEPT !.content = content],
                            !.k = 1, !.toolResults = <<>>, !.hasToolUse = FALSE,
                            !.gates = <<>>]
    /\ net' = [net EXCEPT !.requests = @ + 1, !.cycles = @ + 1,
                          !.varied = IF content \in PlainResponses THEN @ ELSE @ + 1,
                          !.allToolUse = @ /\ HasToolUse(content),
                          !.systems = @ \cup {RequestSystem(net, world)}]
    /\ execLog' = <<>>
    /\ UNCHANGED <<messages, world, pending, bgMu, caller, tasks, sseVars, config>>

\* the ways SendMessageStream and parseSSEStream return an error
FailureKinds == {"send request", "API error (status)", "read stream", "stream error"}

\* a plausible bug: the failed request is tried again
OnRequestError_Retry(l) == l

\* if err != nil { return fmt.Errorf("API error: %w", err) }
OnRequestError(l) == LoopStart

\* one request that fails: runLoop returns the API error
RequestFails(kind) ==
    /\ loop.pc = "request"
    /\ LoopContinues(loop.i)
    /\ loop.i < MaxTurnEnd
    /\ loop' = OnRequestError(loop)
    /\ net' = [net EXCEPT !.requests = @ + 1, !.cycles = @ + 1, !.failed = TRUE,
                          !.returned = "error", !.cause = kind,
                          !.systems = @ \cup {RequestSystem(net, world)}]
    /\ UNCHANGED <<messages, execVars, sseVars, config>>

\* the for condition fails: return nil
LoopEnds ==
    /\ loop.pc = "request"
    /\ ~LoopContinues(loop.i)
    /\ loop' = LoopStart
    /\ net' = [net EXCEPT !.returned = "nil"]
    /\ UNCHANGED <<messages, execVars, sseVars, config>>

\* a block that is no tool_use block is passed over
SkipBlock ==
    /\ loop.pc = "block" /\ InBatch
    /\ Block.type # "tool_use"
    /\ loop' = [loop EXCEPT !.k = @ + 1]
    /\ UNCHANGED <<messages, net, execVars, sseVars, config>>

\* a tool_use block: decode its input, show it, and ask if it is gated
StartTool ==
    /\ loop.pc = "block" /\ InBatch
    /\ Block.type = "tool_use"
    /\ loop' = [loop EXCEPT
           !.hasToolUse = TRUE,
           !.pc = IF needsConfirmation(Block.name, DecodeInput(Block.input))
                  THEN "confirm" ELSE "execute",
           !.gates = IF needsConfirmation(Block.name, DecodeInput(Block.input))
                     THEN @ ELSE Append(@, "none")]
    /\ UNCHANGED <<messages, net, execVars, sseVars, config>>

\* display.ConfirmPrompt returns true
Allow ==
    /\ loop.pc = "confirm"
    /\ loop' = [loop EXCEPT !.pc = "execute", !.gates = Append(@, "allowed")]
    /\ UNCHANGED <<messages, net, execVars, sseVars, config>>

\* display.ConfirmPrompt returns false: record the denial and continue
Deny ==
    /\ loop.pc = "confirm"
    /\ loop' = [loop EXCEPT !.pc = "block", !.k = @ + 1,
                            !.toolResults = Append(@, DeniedResult(Block)),
                            !.gates = Append(@, "denied")]
    /\ UNCHANGED <<messages, net, execVars, sseVars, config>>

\* s.executor.Execute on the block, and its result collected
Dispatch ==
    /\ loop.pc = "execute"
    /\ LET call == ToolCall(Block.id, Block.name, DecodeInput(Block.input))
           r == Execute(call, world)
       IN  /\ world' = r.world
           /\ execLog' = Append(execLog, [call |-> call, result |-> r.result,
                                          before |-> world, after |-> r.world,
                                          block |-> loop.k])
           /\ loop' = [loop EXCEPT !.pc = "block", !.k = @ + 1,
                                   !.toolResults = Append(@, CollectedResult(r.result))]
    /\ UNCHANGED <<messages, net, pending, bgMu, caller, tasks, sseVars, config>>

\* a plausible bug: the loop goes round after a response without tool use
EndsTurn_Never(l) == FALSE

\* if !hasToolUse { display.TokenUsage(...); break }
EndsTurn(l) == ~l.hasToolUse

\* after the last block: the assistant message, then either the end of the
\* turn or the tool results as a user message and the next iteration
EndBatch ==
    /\ loop.pc = "block" /\ ~InBatch
    /\ LET assistant == FullMessage("assistant", AssistantContent(loop.resp.content))
           results == FullMessage("user", loop.toolResults)
       IN  IF EndsTurn(loop)
           THEN /\ messages' = Append(messages, Message("assistant", "blocks"))
                /\ loop' = LoopStart
                /\ net' = [net EXCEPT !.returned = "nil", !.appended = <<assistant>>,
                                      !.reported = TRUE]
           ELSE /\ messages' = Append(Append(messages, Message("assistant", "blocks")),
                                      Message("user", "tool_results"))
                /\ loop' = [loop EXCEPT !.pc = "request", !.i = @ + 1]
                /\ net' = [net EXCEPT !.appended = <<assistant, results>>]
    /\ UNCHANGED <<execVars, sseVars, config>>

\* NewSession: no messages, and the system prompt built from the working
\* directory as it is then
NewSession(w) ==
    /\ messages = <<>>
    /\ loop = LoopStart
    /\ net = [NetStart EXCEPT !.system = buildSystemPrompt(w)]
    /\ config = ConfigStart

InitLoop ==
    /\ world = World(FileOf(<<"a">>), FALSE)
    /\ execLog = <<>>
    /\ pending = <<>>
    /\ bgMu = ""
    /\ caller = Idle
    /\ tasks = NoTasks
    /\ SseIdle
    /\ NewSession(world)

SendRequests == \E content \in Responses : SendRequest(content)
RequestFailures == \E kind \in FailureKinds : RequestFails(kind)

NextLoop ==
    \/ SendMessage
    \/ Clear
    \/ SendRequests
    \/ RequestFailures
    \/ LoopEnds
    \/ SkipBlock
    \/ StartTool
    \/ Allow
    \/ Deny
    \/ Dispatch
    \/ EndBatch
    \/ ProcSteps

SpecLoop == InitLoop /\ [][NextLoop]_vars

\* SpecSession: the same loop in a session created in an empty working
\* directory, into which the tools then write the file
InitSession ==
    /\ world = World(NoFile, FALSE)
    /\ execLog = <<>>
    /\ pending = <<>>
    /\ bgMu = ""
    /\ caller = Idle
    /\ tasks = NoTasks
    /\ SseIdle
    /\ NewSession(world)

SpecSession == InitSession /\ [][NextLoop]_vars

(***************************************************************************)
(* Properties of the conversation loop                                     *)
(***************************************************************************)

\* C2: after any sequence of SendMessage calls, failed or stopped at the
\* ceiling included, no two consecutive messages of the history have the
\* same role
C2_RolesAlternate ==
    \A j \in 1..(Len(messages) - 1) : messages[j].role # messages[j + 1].role

\* the positions of the tool_use blocks of a response, in array order
ToolUseAt(content) ==
    SelectSeq([q \in 1..Len(content) |-> q], LAMBDA q : content[q].type = "tool_use")

\* a process started in the background that has not run to its end
Unfinished(sh) == ~sh.killed /\ sh.pos < Len(Program(sh.cmd))
Running(w) == \E n \in 1..Len(w.shells) : Unfinished(w.shells[n])
IsBackgroundBash(call) ==
    /\ call.name = "Bash"
    /\ AsString(Get(call.input, "command")) # <<>>
    /\ AsBool(Get(call.input, "run_in_background"))

\* the results are collected one per tool_use block, in array order, and a
\* block is gated and dispatched only when every earlier one is collected
InArrayOrder ==
    loop.pc \in {"block", "confirm", "execute"} =>
        LET at == ToolUseAt(loop.resp.content) IN
        /\ Len(loop.toolResults) = Cardinality({q \in 1..(loop.k - 1) :
                                       q <= Len(loop.resp.content)
                                       /\ loop.resp.content[q].type = "tool_use"})
        /\ \A j \in 1..Len(loop.toolResults) :
              loop.toolResults[j].tool_use_id = loop.resp.content[at[j]].id
        /\ \A j \in 1..Len(execLog) :
              /\ execLog[j].block < loop.k
              /\ execLog[j].call.id = loop.resp.content[execLog[j].block].id
              /\ j > 1 => execLog[j - 1].block < execLog[j].block

C4_IterationCap ==
    /\ net.cycles <= maxToolIterations
    /\ (net.returned # "" /\ net.allToolUse /\ ~net.failed) =>
           (net.cycles = maxToolIterations /\ net.returned = "nil")

C4_Witness ==
    /\ loop.pc = "idle"
    /\ net.returned = "nil" /\ net.allToolUse /\ ~net.failed
    /\ net.cycles = maxToolIterations

\* C5: a denied block is not handed to the executor, its recorded result is
\* the error "User denied this operation" under the block's id, and the
\* later tool_use blocks of the response are still processed
C5_DenialContinues ==
    LET at == ToolUseAt(loop.resp.content) IN
    /\ \A j \in 1..Len(loop.toolResults) :
          IF loop.gates[j] = "denied"
          THEN /\ loop.toolResults[j].tool_use_id = loop.resp.content[at[j]].id
               /\ loop.toolResults[j].content.msg = "User denied this operation"
               /\ loop.toolResults[j].is_error
               /\ \A n \in 1..Len(execLog) : execLog[n].block # at[j]
          ELSE \E n \in 1..Len(execLog) :
                  /\ execLog[n].block = at[j]
                  /\ loop.toolResults[j] = CollectedResult(execLog[n].result)
    /\ (loop.pc = "block" /\ ~InBatch) => Len(loop.toolResults) = Len(at)

\* a batch whose first tool was denied and whose second tool was executed
C5_Witness ==
    /\ loop.pc = "block" /\ ~InBatch
    /\ loop.gates = <<"denied", "none">>
    /\ Len(execLog) = 1
    /\ execLog[1].block = ToolUseAt(loop.resp.content)[2]

(***************************************************************************)
(* Further properties of the stream parser                                 *)
(***************************************************************************)

\* a step that reads one data line while the current event is ev
DataLineUnder(ev) ==
    /\ Reading
    /\ parser.currentEvent = ev
    /\ wire'.nData = wire.nData + 1

\* what an error event does: one OnError, an error and no response returned
AbortsWithStreamError ==
    /\ parser'.status = "failed"
    /\ parser'.err = "stream error"
    /\ parser'.result = EmptyResponse
    /\ sink'.errors = sink.errors + 1
    /\ sink'.text = sink.text

\* once parseSSEStream has returned an error, no line is processed
NothingAfterFailure ==
    parser.status = "failed" => UNCHANGED <<parser, sink, wire, received>>

\* C11 as stated: whenever a data line arrives while the current event is
\* error, the sink's error callback is notified once, an error and no
\* response are returned, and no later line is processed
C11_AnyErrorDataIsTerminal ==
    [][(DataLineUnder("error") => AbortsWithStreamError) /\ NothingAfterFailure]_vars

\* C11, amended: whenever a data line whose JSON decodes arrives while the
\* current event is error, the sink's error callback is notified once, an
\* error and no response are returned, and no later line is processed
C11_ErrorIsTerminal ==
    [][((DataLineUnder("error") /\ wire'.lastOk) => AbortsWithStreamError)
       /\ NothingAfterFailure]_vars

\* an error event that ended a stream some of whose lines had been processed
C11_Witness ==
    /\ parser.status = "failed" /\ parser.err = "stream error"
    /\ sink.errors = 1
    /\ wire.nData >= 2

BadDataLine == wire'.nData = wire.nData + 1 /\ ~wire'.lastOk

\* C19: a data line whose JSON does not decode is skipped, and only it: the
\* response under construction, the input buffers and the current event
\* stay as they were, no callback of the sink is called, the parse does not
\* fail, and the parser reads on from the state it had before the line.
C19_BadLineSkipped ==
    [][BadDataLine =>
          /\ parser' = parser
          /\ sink' = sink
          /\ received' = received
          /\ parser'.status = "reading"]_vars

\* an undecodable data line came under an event the parser has a case for,
\* after a block had been stored, and the parse then ran to its end with
\* the block in the response
C19_Witness ==
    /\ wire.nData >= 2
    /\ ~wire.lastOk
    /\ parser.currentEvent = "content_block_delta"
    /\ parser.status = "returned"
    /\ Len(parser.result.content) >= 1
    /\ parser.result.content[1].type = "tool_use"
    /\ sink.calls = 1

\* the indexes for which this step read an input_json_delta fragment
DeltaIndexes ==
    {i \in DOMAIN wire'.carried : i \notin DOMAIN wire.carried \/ wire'.carried[i] # wire.carried[i]}
FragmentFor(i) ==
    LET before == IF i \in DOMAIN wire.carried THEN wire.carried[i] ELSE <<>>
    IN  SubSeq(wire'.carried[i], Len(before) + 1, Len(wire'.carried[i]))

\* the blocks that are in the response before and after this step
Staying == {q \in 1..Len(parser.result.content) : q <= Len(parser'.result.content)}

\* C22: tool-input deltas never write to the block.  An input_json_delta
\* appends its fragment to the accumulation buffer of its index, if there is
\* one, and changes no content block; the input of a block that stays in the
\* response changes only at content_block_stop (a content_block_start stores
\* a new block).
C22_DeltaLeavesBlocks ==
    [][/\ \A i \in DeltaIndexes :
             /\ parser'.result = parser.result
             /\ parser'.toolInputs =
                    IF i \in DOMAIN parser.toolInputs
                    THEN [parser.toolInputs EXCEPT ![i] = @ \o FragmentFor(i)]
                    ELSE parser.toolInputs
       /\ \A q \in Staying :
             (/\ parser'.result.content[q].input # parser.result.content[q].input
              /\ parser.currentEvent # "content_block_start")
             => /\ parser.currentEvent = "content_block_stop"
                /\ wire'.nData = wire.nData + 1
      ]_vars

\* two fragments are in the buffer of a tool_use block and the block still
\* has the input of its start event
C22_Witness ==
    /\ parser.status = "reading"
    /\ 0 \in DOMAIN parser.toolInputs
    /\ Len(parser.toolInputs[0]) = 3
    /\ parser.result.content[1].type = "tool_use"
    /\ parser.result.content[1].input = <<LBrace, RBrace>>

\* this step read a data line that decoded, under the event ev
DecodedLineUnder(ev) ==
    /\ parser.status = "reading"
    /\ parser.currentEvent = ev
    /\ wire'.nData = wire.nData + 1
    /\ wire'.lastOk

\* what a content_block_stop for index i makes of the blocks and buffers
StoppedAt(i) ==
    IF i \in DOMAIN parser.toolInputs
    THEN /\ parser'.toolInputs = Drop(parser.toolInputs, i)
         /\ parser'.result.content =
                IF i < Len(parser.result.content)
                THEN [parser.result.content EXCEPT ![i + 1].input = parser.toolInputs[i]]
                ELSE parser.result.content
    ELSE /\ parser'.toolInputs = parser.toolInputs
         /\ parser'.result = parser.result

Increment == SubSeq(sink'.text, Len(sink.text) + 1, Len(sink'.text))

\* C24: for every text_delta event the text is appended to the block at the
\* delta's index and the sink is notified with the same increment, so that
\* what the sink was given is what the blocks of the response accumulate.
C24_TextDeltaReachesBlock ==
    [][sink'.text # sink.text =>
          \E q \in 1..Len(parser.result.content) :
              parser'.result.content =
                  [parser.result.content EXCEPT ![q].text = @ \o Increment]
      ]_vars

\* the stop reasons and the usage counters that message_delta lines carry
CarriedReasons == {p.delta.stop_reason : p \in Data} \ {""}
CarriedUsage ==
    {[input_tokens |-> p.usage.input_tokens, output_tokens |-> p.usage.output_tokens] :
        p \in {d \in Data : d.usage.present}}

\* C25: message_delta updates the response progressively: a stop reason it
\* carries becomes the response's stop reason and usage it carries becomes
\* the response's usage, and what it omits stays as recorded before, so the
\* stop reason and the usage after a message_delta are either the carried
\* ones or the ones before it.
C25_MessageDeltaProgressive ==
    [][DecodedLineUnder("message_delta") =>
          /\ parser'.result.stop_reason \in {parser.result.stop_reason} \cup CarriedReasons
          /\ parser'.result.usage \in {parser.result.usage} \cup CarriedUsage
          /\ parser'.result.content = parser.result.content
          /\ parser'.toolInputs = parser.toolInputs
      ]_vars

\* C26: message_start initializes the aggregated response with no content:
\* right after a message_start was processed the response's id, role and
\* model are those of the payload and its content and the set of pending
\* accumulation buffers are empty, also when blocks had been started before.
C26_MessageStartInitializes ==
    [][DecodedLineUnder("message_start") =>
          /\ \E p \in Data :
                /\ parser'.result.id = p.message.id
                /\ parser'.result.role = p.message.role
                /\ parser'.result.model = p.message.model
          /\ parser'.result.content = <<>>
          /\ parser'.toolInputs = [i \in {} |-> <<>>]
      ]_vars

Handled ==
    {"message_start", "content_block_start", "content_block_delta",
     "content_block_stop", "message_delta", "error"}

\* C27: an event kind other than message_start, content_block_start,
\* content_block_delta, content_block_stop, message_delta and error is
\* ignored: its data lines leave the aggregated response and the buffers
\* unchanged, call no callback of the sink and do not end the parse.
C27_OtherEventsIgnored ==
    [][(/\ parser.status = "reading"
        /\ parser.currentEvent \notin Handled
        /\ wire'.nData = wire.nData + 1) =>
          /\ parser' = parser
          /\ sink' = sink
          /\ received' = received
      ]_vars

\* after a block was started and got text, a decodable data line came under
\* message_stop, and the block and what the sink was given are as before
C27_Witness ==
    /\ parser.status = "reading"
    /\ parser.currentEvent = "message_stop"
    /\ wire.nData = 3 /\ wire.lastOk
    /\ Len(parser.result.content) = 1
    /\ parser.result.content[1].text = <<"h">>
    /\ sink.text = <<"h">>
    /\ sink.calls = 1

\* the tool_use blocks of the response whose buffer is still there
Pending ==
    {q \in 1..Len(parser.result.content) :
        /\ parser.result.content[q].type = "tool_use"
        /\ (q - 1) \in DOMAIN parser.toolInputs}

\* C21: every tool_use block the engine decodes and dispatches has been
\* finalized: when parseSSEStream returns the response, no tool_use block in
\* it has an accumulation buffer that is still pending (its input was stored
\* at a content_block_stop for its index).
C21_ReturnedAreFinalized ==
    parser.status = "returned" => Pending = {}

(***************************************************************************)
(* Further properties of the conversation loop                             *)
(***************************************************************************)

\* C12: a request that fails (status, transport, stream read, error event)
\* makes runLoop return an error in that iteration: no tool is dispatched,
\* no message is appended, and the call sends no further request
C12_FatalFailureAborts ==
    [][/\ (~net.failed /\ net'.failed) =>
              /\ net'.cause \in FailureKinds
              /\ net'.returned = "error"
              /\ loop'.pc = "idle"
              /\ messages' = messages
              /\ execLog' = execLog
       /\ (net.failed /\ net'.sends = net.sends) =>
              /\ net' = net
              /\ loop' = loop
              /\ execLog' = execLog
              /\ messages' \in {messages, <<>>}]_vars

\* the request of a second SendMessage call failed by an error event
C12_Witness ==
    /\ net.failed /\ net.cause = "stream error"
    /\ net.sends = 2
    /\ messages # <<>> /\ messages[Len(messages)].role = "user"

\* the collected result j of the batch comes from a tool-level failure: a
\* denial, or an execution that failed (an unknown tool name included)
ToolLevelFailure(j) ==
    \/ loop.gates[j] = "denied"
    \/ \E n \in 1..Len(execLog) :
          /\ execLog[n].block = ToolUseAt(loop.resp.content)[j]
          /\ execLog[n].result.failed

\* the batch of the iteration before has been appended to the history
BatchAppended ==
    /\ loop.pc = "request" /\ loop.i > 0
    /\ Len(net.appended) = 2

\* C13: a tool execution failure, a denial or an unknown tool name never
\* makes runLoop return an error; each becomes a tool_result with
\* is_error = TRUE that is appended to the history for the next request
C13_ToolFailuresFedBack ==
    /\ net.returned = "error" => net.failed
    /\ \A j \in 1..Len(loop.toolResults) :
          ToolLevelFailure(j) => loop.toolResults[j].is_error
    /\ BatchAppended =>
          /\ net.returned = ""
          /\ net.appended[2].content = loop.toolResults
          /\ messages[Len(messages)] = Message("user", "tool_results")

\* the step that ends a batch holding a tool_use block
BatchEnds ==
    /\ loop.pc = "block" /\ ~InBatch
    /\ loop.hasToolUse
    /\ loop' # loop

\* C14: after each batch exactly one user message is appended, bundling one
\* tool_result per tool_use block of the response, denied ones included, in
\* block order and each under its block's id; the assistant message holding
\* those tool_use blocks is appended immediately before it
C14_ResultsBundled ==
    [][/\ BatchEnds =>
              LET at == ToolUseAt(loop.resp.content)
                  n == Len(messages)
                  assistant == net'.appended[1]
                  results == net'.appended[2]
                  uses == SelectSeq(assistant.content, LAMBDA b : b.type = "tool_use")
              IN  /\ Len(messages') = n + 2
                  /\ SubSeq(messages', 1, n) = messages
                  /\ messages'[n + 1] = Message("assistant", "blocks")
                  /\ messages'[n + 2] = Message("user", "tool_results")
                  /\ Len(net'.appended) = 2
                  /\ assistant.role = "assistant" /\ results.role = "user"
                  /\ Len(uses) = Len(at) /\ Len(results.content) = Len(at)
                  /\ \A j \in 1..Len(at) :
                        /\ uses[j].id = loop.resp.content[at[j]].id
                        /\ uses[j].name = loop.resp.content[at[j]].name
                        /\ uses[j].input = loop.resp.content[at[j]].input
                        /\ results.content[j].type = "tool_result"
                        /\ results.content[j].tool_use_id = loop.resp.content[at[j]].id
       /\ (loop.pc \in {"request", "confirm", "execute"} \/ (loop.pc = "block" /\ InBatch))
              => messages' = messages]_vars

\* a batch of two tools, the first of them denied, bundled in one message
C14_Witness ==
    /\ BatchAppended
    /\ Len(net.appended[2].content) = 2
    /\ loop.gates = <<"denied", "none">>
    /\ net.appended[2].content[1].tool_use_id = "t1"
    /\ net.appended[2].content[2].tool_use_id = "t2"

\* the tools whose use has to be confirmed
Gated == {"Bash", "Write", "Edit", "MultiEdit"}

PromptShown == loop.pc # "confirm" /\ loop'.pc = "confirm"
Dispatched == Len(execLog') = Len(execLog) + 1

\* C17: the engine asks for confirmation of a tool_use block exactly when
\* its tool name is Bash, Write, Edit or MultiEdit; the executor runs such a
\* block only after the confirmation was granted, and a block of any other
\* name (Read, Glob, Grep, BashOutput, KillBash, an unknown name) is
\* dispatched without a prompt.
C17_ConfirmationGate ==
    [][/\ PromptShown => (loop.pc = "block" /\ Block.type = "tool_use" /\ Block.name \in Gated)
       /\ (loop.pc = "block" /\ InBatch /\ Block.type = "tool_use" /\ loop' # loop) =>
              IF Block.name \in Gated THEN PromptShown
              ELSE loop'.pc = "execute" /\ loop'.k = loop.k
       /\ Dispatched =>
              /\ loop.pc = "execute"
              /\ execLog'[Len(execLog')].call.name = Block.name
              /\ execLog'[Len(execLog')].call.id = Block.id
              /\ loop.gates # <<>>
              /\ loop.gates[Len(loop.gates)] =
                     IF Block.name \in Gated THEN "allowed" ELSE "none"
       /\ (loop.pc = "confirm" /\ loop' # loop) =>
              \/ loop'.pc = "execute" /\ loop'.k = loop.k /\ execLog' = execLog
              \/ loop'.pc = "block" /\ loop'.k = loop.k + 1 /\ execLog' = execLog
      ]_vars

\* an Edit was run after it was allowed, and the KillBash after it was run
\* without a prompt
C17_Witness ==
    /\ Len(execLog) >= 2
    /\ execLog[Len(execLog) - 1].call.name = "Edit"
    /\ execLog[Len(execLog)].call.name = "KillBash"
    /\ loop.gates = <<"allowed", "none">>

\* the state of the exchange
Phase(l) ==
    CASE l.pc = "idle" -> "Idle"
      [] l.pc = "request" -> "RequestSent"
      [] l.pc = "block" /\ ~l.hasToolUse -> "ResponseReceived"
      [] OTHER -> "DispatchingTools"

\* the moves of the state machine; a request that fails and the iteration
\* ceiling lead from RequestSent to Idle
Moves ==
    {<<"Idle", "RequestSent">>, <<"RequestSent", "ResponseReceived">>,
     <<"RequestSent", "Idle">>, <<"ResponseReceived", "Idle">>,
     <<"ResponseReceived", "DispatchingTools">>, <<"DispatchingTools", "RequestSent">>}

ToolUses(content) == {q \in 1..Len(content) : content[q].type = "tool_use"}

\* C28: the engine follows Idle -> RequestSent -> ResponseReceived ->
\* {Done | DispatchingTools -> RequestSent}.  A request goes out only from
\* Idle, on SendMessage, or after a tool batch that is complete; tools are
\* dispatched only once the response has been received; and no request goes
\* out while another is outstanding or its response is being worked on.
C28_StateMachine ==
    [][/\ Phase(loop') # Phase(loop) => <<Phase(loop), Phase(loop')>> \in Moves
       /\ (Phase(loop') = "RequestSent" /\ Phase(loop) # "RequestSent") =>
              \/ /\ Phase(loop) = "Idle"
                 /\ net'.sends = net.sends + 1
              \/ /\ Phase(loop) = "DispatchingTools"
                 /\ loop.pc = "block" /\ ~InBatch
                 /\ Len(loop.toolResults) = Cardinality(ToolUses(loop.resp.content))
       /\ Dispatched =>
              /\ Phase(loop) = "DispatchingTools"
              /\ Block \in {loop.resp.content[q] : q \in ToolUses(loop.resp.content)}
       /\ net'.requests # net.requests =>
              /\ net'.requests = net.requests + 1
              /\ Phase(loop) = "RequestSent"
              /\ Phase(loop') \in {"ResponseReceived", "Idle"}
      ]_vars

\* the second request of a turn has been answered and its tool is about to
\* be dispatched
C28_Witness ==
    /\ net.cycles = 2
    /\ loop.i = 1
    /\ loop.pc = "execute"
    /\ Len(messages) = 3

\* the step after the last block of a response
ResponseDone == loop.pc = "block" /\ ~InBatch /\ loop' # loop

\* C29: a response ends the exchange if and only if it holds no tool_use
\* block.  With none, the assistant message is appended, usage is reported,
\* no tool-result message is appended and no further request is sent; with
\* at least one, and the iteration ceiling not reached, the next request is
\* sent.
C29_EndsIffNoToolUse ==
    [][/\ ResponseDone =>
              IF ToolUses(loop.resp.content) = {}
              THEN /\ messages' = Append(messages, Message("assistant", "blocks"))
                   /\ net'.appended =
                          <<FullMessage("assistant", AssistantContent(loop.resp.content))>>
                   /\ net'.reported
                   /\ net'.returned = "nil"
                   /\ loop'.pc = "idle"
                   /\ net'.requests = net.requests
              ELSE /\ Len(net'.appended) = 2
                   /\ ~net'.reported
                   /\ net'.returned = ""
                   /\ loop'.pc = "request"
                   /\ loop'.i = loop.i + 1
       /\ (loop.pc = "request" /\ loop.i < maxToolIterations /\ loop' # loop) =>
              net'.requests = net.requests + 1
       /\ (loop.pc = "idle" /\ loop'.pc = "idle") => net'.requests = net.requests
      ]_vars

\* the first turn ended with a response that held no tool_use block; in the
\* second turn a response with one was followed, after its batch, by the
\* next request, which has been answered
C29_Witness ==
    /\ net.sends = 2
    /\ Len(messages) = 5
    /\ messages[2] = Message("assistant", "blocks")
    /\ messages[3] = Message("user", "input")
    /\ messages[5] = Message("user", "tool_results")
    /\ net.cycles = 2
    /\ loop.pc = "block"

\* the place of block q among the tool_use blocks of a response
Rank(content, q) == Cardinality({x \in ToolUses(content) : x <= q})

\* the tool_use blocks the walk has passed whose input does not decode
PassedUndecodable ==
    {q \in ToolUses(loop.resp.content) :
        q < loop.k /\ Unmarshal(loop.resp.content[q].input).err}

\* C30: when the input bytes of a tool_use block do not decode, the engine
\* takes an empty input instead of failing: the block is gated by its name
\* like any other, is dispatched to the executor with an empty input map
\* (unless denied), and has exactly one tool_result in the batch.
C30_UndecodableInputIsEmpty ==
    loop.pc \in {"block", "request"} =>
        /\ Len(loop.toolResults) =
               Cardinality({q \in ToolUses(loop.resp.content) : q < loop.k})
        /\ \A q \in PassedUndecodable :
               LET b == loop.resp.content[q]
                   j == Rank(loop.resp.content, q)
               IN  /\ loop.toolResults[j].tool_use_id = b.id
                   /\ loop.gates[j] \in
                          (IF b.name \in Gated THEN {"allowed", "denied"} ELSE {"none"})
                   /\ loop.gates[j] # "denied" =>
                          \E n \in 1..Len(execLog) :
                              /\ execLog[n].block = q
                              /\ execLog[n].call = ToolCall(b.id, b.name, NoInput)
                              /\ \A h \in 1..Len(execLog) : execLog[h].block = q => h = n
                   /\ loop.gates[j] = "denied" =>
                          \A n \in 1..Len(execLog) : execLog[n].block # q

\* a Bash block whose input is cut off was allowed and run with an empty
\* input, and the batch went on to the next block
C30_Witness ==
    /\ loop.pc = "request"
    /\ PassedUndecodable = {1}
    /\ loop.gates = <<"allowed", "allowed">>
    /\ Len(execLog) = 2
    /\ execLog[1].call = ToolCall("t1", "Bash", NoInput)
    /\ execLog[1].result.is_error
    /\ Len(loop.toolResults) = 2

\* C33: the system prompt is immutable for the lifetime of the session.
\* Session.system is at all times the prompt NewSession built from the
\* working directory as it was then, no step (a SendMessage, an iteration of
\* runLoop, a tool that changes the directory's contents, a Clear) changes
\* it, and every request made so far carried that prompt.
C33_SystemImmutable ==
    [][/\ net.system = buildSystemPrompt(World(NoFile, FALSE))
       /\ net'.system = net.system
       /\ net'.systems \subseteq {net.system}
      ]_vars

\* a tool has created the file, so that a prompt built now would differ, a
\* Clear has emptied the history, and requests were made before and after
C33_Witness ==
    /\ world.file.exists
    /\ buildSystemPrompt(world) # net.system
    /\ net.sends = 2
    /\ net.requests >= 3
    /\ Len(messages) = 1
    /\ loop.pc = "block"
    /\ net.systems = {net.system}

IsPrefix(s, t) == Len(s) <= Len(t) /\ SubSeq(t, 1, Len(s)) = s

\* the step is a Session.Clear
ClearStep == loop.pc = "idle" /\ loop' = loop /\ net' = net /\ messages' = <<>>

\* C34: the history is append-only between Clear calls.  Every step other
\* than a Clear leaves the history as it was or extends it at its end, so
\* that what was there before is a prefix of what is there after and no
\* message appended earlier, an assistant message included, is changed or
\* removed; the messages added are the ones the step appended, in order,
\* and an assistant message goes in whole, with the blocks of the response
\* whose stream has ended.
C34_AppendOnly ==
    [][\/ ClearStep
       \/ /\ IsPrefix(messages, messages')
          /\ messages' # messages =>
                LET n == Len(messages)
                    added == net'.appended
                IN  /\ Len(messages') = n + Len(added)
                    /\ \A j \in 1..Len(added) :
                           /\ messages'[n + j].role = added[j].role
                           /\ added[j].role = "assistant" =>
                                  /\ loop.pc = "block" /\ ~InBatch
                                  /\ added[j].content = AssistantContent(loop.resp.content)
      ]_vars

\* a second SendMessage has run to its end and the four messages of the two
\* turns are in the history, the first turn's still in front
C34_Witness ==
    /\ net.sends = 2
    /\ loop.pc = "idle"
    /\ net.returned = "nil"
    /\ Len(messages) = 4
    /\ messages[1] = Message("user", "input") /\ messages[2] = Message("assistant", "blocks")
    /\ messages[3] = Message("user", "input") /\ messages[4] = Message("assistant", "blocks")

(***************************************************************************)
(* SpecConfig: config.Load over the environment and the config file.  A    *)
(* variable of the environment is unset, set to the empty string or set to *)
(* a value; the file is missing, is not JSON, or holds a Config whose      *)
(* fields are empty (left out, omitempty) or have a value.                 *)
(***************************************************************************)
DefaultBaseURL == "https://api.apipod.net"
DefaultModel == "claude-sonnet-4-20250514"

\* os.Getenv: the empty string for a variable that is not set
Getenv(env, name) == IF env[name].set THEN env[name].value ELSE ""

Load(env, file) ==
    LET base == Getenv(env, "APIPOD_BASE_URL")
        key == Getenv(env, "APIPOD_API_KEY")
        model == Getenv(env, "APIPOD_MODEL")
        cfg == Config(IF base # "" THEN base ELSE DefaultBaseURL,
                      IF key # "" THEN key ELSE "",
                      IF model # "" THEN model ELSE DefaultModel,
                      "", "")
        fileCfg == file.cfg
    IN  IF ~file.readable \/ ~file.decodes
        THEN cfg
        ELSE Config(IF fileCfg.BaseURL # "" THEN fileCfg.BaseURL ELSE cfg.BaseURL,
                    IF fileCfg.APIKey # "" /\ cfg.APIKey = "" THEN fileCfg.APIKey ELSE cfg.APIKey,
                    IF fileCfg.Model # "" /\ model = "" THEN fileCfg.Model ELSE cfg.Model,
                    fileCfg.Username,
                    fileCfg.Plan)

EnvSettings == {NotSet, [set |-> TRUE, value |-> ""], [set |-> TRUE, value |-> "from-env"]}
ConfigFiles ==
    {NoConfigFile, [readable |-> TRUE, decodes |-> FALSE, cfg |-> Config("", "", "", "", "")]}
    \cup {[readable |-> TRUE, decodes |-> TRUE, cfg |-> Config(b, k, m, u, "")] :
             b \in {"", "file-url"}, k \in {"", "file-key"}, m \in {"", "file-model"},
             u \in {"", "name"}}

InitConfig ==
    /\ config \in {[ConfigStart EXCEPT !.env = e, !.file = f] :
                      e \in [EnvNames -> EnvSettings], f \in ConfigFiles}
    /\ messages = <<>>
    /\ loop = LoopStart
    /\ net = NetStart
    /\ world = World(NoFile, FALSE)
    /\ execLog = <<>>
    /\ pending = <<>>
    /\ bgMu = ""
    /\ caller = Idle
    /\ tasks = NoTasks
    /\ SseIdle

\* cfg, err := config.Load() at start-up
LoadConfig ==
    /\ ~config.loaded
    /\ config' = [config EXCEPT !.cfg = Load(config.env, config.file), !.loaded = TRUE]
    /\ UNCHANGED <<messages, loop, net, execVars, sseVars>>

NextConfig == LoadConfig

SpecConfig == InitConfig /\ [][NextConfig]_vars

\* the field of Config that a variable of the environment stands for, and
\* the value Load gives the field when nothing sets it
FieldOf(name) ==
    CASE name = "APIPOD_BASE_URL" -> "BaseURL"
      [] name = "APIPOD_API_KEY" -> "APIKey"
      [] name = "APIPOD_MODEL" -> "Model"
DefaultOf(name) ==
    CASE name = "APIPOD_BASE_URL" -> DefaultBaseURL
      [] name = "APIPOD_API_KEY" -> ""
      [] name = "APIPOD_MODEL" -> DefaultModel

FileHas(name) ==
    /\ config.file.readable /\ config.file.decodes
    /\ config.file.cfg[FieldOf(name)] # ""

\* C20: the environment overrides the config file.  For APIPOD_BASE_URL,
\* APIPOD_API_KEY and APIPOD_MODEL: when the variable is set to a non-empty
\* value, Load returns that value in the field whatever the file holds; when
\* it is not set, Load returns the file's value if the file has one and the
\* default otherwise.
C20_EnvOverridesFile ==
    config.loaded =>
        \A name \in EnvNames :
            LET e == config.env[name]
                got == config.cfg[FieldOf(name)]
            IN  /\ (e.set /\ e.value # "") => got = e.value
                /\ ~e.set => got = IF FileHas(name)
                                   THEN config.file.cfg[FieldOf(name)]
                                   ELSE DefaultOf(name)

=============================================================================
